---- MODULE Spec2Model ----
(***************************************************************************)
(* Query understanding and explanation engine of the CA school dashboard   *)
(* (src/app.py): intent extraction (AI strategy with the rule-based        *)
(* fallback), the MongoDB filter compiler, the store lookup and the        *)
(* result explainer, as run by the /query handler.                          *)
(*                                                                         *)
(* A text is the sequence of its characters, each a one-character string,  *)
(* so that Python's substring test (`in`), str.lower() and the             *)
(* case-insensitive $regex of the store are computed, not assumed.         *)
(***************************************************************************)
EXTENDS Integers, Sequences, FiniteSets, TLC

(***************************************************************************)
(* Texts                                                                   *)
(***************************************************************************)

\* Python's None where a text is expected: no text is equal to it.
None == <<"None">>

district_keywords ==
  << <<<<"s","u","n","n","y","v","a","l","e">>, <<"s","u","n","n","y","v","a","l","e">>>>   \* "sunnyvale"
   , <<<<"s","a","n"," ","f","r","a","n","c","i","s","c","o">>, <<"s","a","n"," ","f","r","a","n","c","i","s","c","o">>>>   \* "san francisco"
   , <<<<"l","o","s"," ","a","n","g","e","l","e","s">>, <<"l","o","s"," ","a","n","g","e","l","e","s">>>>   \* "los angeles"
   , <<<<"o","a","k","l","a","n","d">>, <<"o","a","k","l","a","n","d">>>>   \* "oakland"
   , <<<<"s","a","n"," ","d","i","e","g","o">>, <<"s","a","n"," ","d","i","e","g","o">>>>   \* "san diego"
   , <<<<"a","l","a","m","e","d","a">>, <<"a","l","a","m","e","d","a">>>>   \* "alameda"
   , <<<<"f","r","e","s","n","o">>, <<"f","r","e","s","n","o">>>>   \* "fresno"
   , <<<<"s","a","c","r","a","m","e","n","t","o">>, <<"s","a","c","r","a","m","e","n","t","o">>>>   \* "sacramento"
  >>

student_group_patterns ==
  << <<<<"h","i","s","p","a","n","i","c">>, "HI">>   \* "hispanic"
   , <<<<"l","a","t","i","n","o">>, "HI">>   \* "latino"
   , <<<<"b","l","a","c","k">>, "AA">>   \* "black"
   , <<<<"a","f","r","i","c","a","n"," ","a","m","e","r","i","c","a","n">>, "AA">>   \* "african american"
   , <<<<"a","s","i","a","n">>, "AS">>   \* "asian"
   , <<<<"w","h","i","t","e">>, "WH">>   \* "white"
   , <<<<"f","i","l","i","p","i","n","o">>, "FI">>   \* "filipino"
   , <<<<"p","a","c","i","f","i","c"," ","i","s","l","a","n","d","e","r">>, "PI">>   \* "pacific islander"
   , <<<<"a","m","e","r","i","c","a","n"," ","i","n","d","i","a","n">>, "AI">>   \* "american indian"
   , <<<<"t","w","o"," ","o","r"," ","m","o","r","e"," ","r","a","c","e","s">>, "MR">>   \* "two or more races"
   , <<<<"e","n","g","l","i","s","h"," ","l","e","a","r","n","e","r","s">>, "EL">>   \* "english learners"
   , <<<<"e","n","g","l","i","s","h"," ","l","e","a","r","n","e","r">>, "EL">>   \* "english learner"
   , <<<<"l","o","n","g","-","t","e","r","m"," ","e","n","g","l","i","s","h"," ","l","e","a","r","n","e","r","s">>, "LTEL">>   \* "long-term english learners"
   , <<<<"s","o","c","i","o","e","c","o","n","o","m","i","c","a","l","l","y"," ","d","i","s","a","d","v","a","n","t","a","g","e","d">>, "SED">>   \* "socioeconomically disadvantaged"
   , <<<<"l","o","w"," ","i","n","c","o","m","e">>, "SED">>   \* "low income"
   , <<<<"s","t","u","d","e","n","t","s"," ","w","i","t","h"," ","d","i","s","a","b","i","l","i","t","i","e","s">>, "SWD">>   \* "students with disabilities"
   , <<<<"s","p","e","c","i","a","l"," ","e","d","u","c","a","t","i","o","n">>, "SWD">>   \* "special education"
   , <<<<"h","o","m","e","l","e","s","s">>, "HOM">>   \* "homeless"
   , <<<<"f","o","s","t","e","r">>, "FOS">>   \* "foster"
   , <<<<"a","l","l"," ","s","t","u","d","e","n","t","s">>, "ALL">>   \* "all students"
  >>

color_words ==
  << <<"r","e","d">>   \* "red"
   , <<"o","r","a","n","g","e">>   \* "orange"
   , <<"y","e","l","l","o","w">>   \* "yellow"
   , <<"g","r","e","e","n">>   \* "green"
   , <<"b","l","u","e">>   \* "blue"
  >>

absenteeism_words ==
  << <<"c","h","r","o","n","i","c">>   \* "chronic"
   , <<"a","b","s","e","n","t","e","e","i","s","m">>   \* "absenteeism"
   , <<"a","t","t","e","n","d","a","n","c","e">>   \* "attendance"
   , <<"a","b","s","e","n","t">>   \* "absent"
  >>

ela_words ==
  << <<"e","l","a">>   \* "ela"
   , <<"e","n","g","l","i","s","h"," ","l","a","n","g","u","a","g","e"," ","a","r","t","s">>   \* "english language arts"
   , <<"r","e","a","d","i","n","g">>   \* "reading"
   , <<"l","i","t","e","r","a","c","y">>   \* "literacy"
  >>

math_words ==
  << <<"m","a","t","h">>   \* "math"
   , <<"m","a","t","h","e","m","a","t","i","c","s">>   \* "mathematics"
   , <<"a","r","i","t","h","m","e","t","i","c">>   \* "arithmetic"
  >>

unavailable_terms ==
  << <<"s","u","s","p","e","n","s","i","o","n">>   \* "suspension"
   , <<"d","i","s","c","i","p","l","i","n","e">>   \* "discipline"
   , <<"c","o","l","l","e","g","e">>   \* "college"
   , <<"c","a","r","e","e","r">>   \* "career"
   , <<"g","r","a","d","u","a","t","i","o","n">>   \* "graduation"
   , <<"e","n","g","l","i","s","h"," ","l","e","a","r","n","e","r"," ","p","r","o","g","r","e","s","s">>   \* "english learner progress"
   , <<"e","l","p","i">>   \* "elpi"
   , <<"e","l","p","a","c">>   \* "elpac"
  >>

problem_phrases ==
  << <<"l","o","w","e","s","t">>   \* "lowest"
   , <<"w","o","r","s","t">>   \* "worst"
   , <<"s","t","r","u","g","g","l","i","n","g">>   \* "struggling"
   , <<"r","e","d">>   \* "red"
   , <<"p","r","o","b","l","e","m">>   \* "problem"
   , <<"c","o","n","c","e","r","n","i","n","g">>   \* "concerning"
  >>

LowerMap ==
  ("A" :> "a") @@ ("B" :> "b") @@ ("C" :> "c") @@ ("D" :> "d") @@ ("E" :> "e") @@ ("F" :> "f") @@ ("G" :> "g") @@ ("H" :> "h") @@ ("I" :> "i") @@ ("J" :> "j") @@ ("K" :> "k") @@ ("L" :> "l") @@ ("M" :> "m")
  @@ ("N" :> "n") @@ ("O" :> "o") @@ ("P" :> "p") @@ ("Q" :> "q") @@ ("R" :> "r") @@ ("S" :> "s") @@ ("T" :> "t") @@ ("U" :> "u") @@ ("V" :> "v") @@ ("W" :> "w") @@ ("X" :> "x") @@ ("Y" :> "y") @@ ("Z" :> "z")

\* str.lower() on one character, and on a text.
LowerChar(c) == IF c \in DOMAIN LowerMap THEN LowerMap[c] ELSE c

Lower(s) == [i \in 1..Len(s) |-> LowerChar(s[i])]

\* str.title() of a colour word: the first letter in upper case.
Title(s) ==
  [i \in 1..Len(s) |->
     IF i = 1
       THEN (CHOOSE u \in DOMAIN LowerMap : LowerMap[u] = s[1])
       ELSE s[i]]

\* Python's `kw in text`: kw occurs in text as a contiguous run of characters.
Contains(text, kw) ==
  \E i \in 0..(Len(text) - Len(kw)) : SubSeq(text, i + 1, i + Len(kw)) = kw

\* any(w in text for w in ws)
ContainsAny(text, ws) == \E k \in 1..Len(ws) : Contains(text, ws[k])

\* The status levels get_color_status writes into the store, as texts.
Red == <<"R","e","d">>

Orange == <<"O","r","a","n","g","e">>

Yellow == <<"Y","e","l","l","o","w">>

Green == <<"G","r","e","e","n">>

Blue == <<"B","l","u","e">>

NoData == <<"N","o"," ","D","a","t","a">>

Unknown == <<"U","n","k","n","o","w","n">>

(***************************************************************************)
(* Rule-based intent extraction                                            *)
(***************************************************************************)

Explanation_patterns == "Using pattern matching for query analysis"

Explanation_unavailable == "Requested data (suspensions, college/career, EL progress) is not available in the current dataset. Available indicators: chronic absenteeism, ELA performance, math performance."

\* FirstDistrict without the `break`: the last matching entry wins.
FirstDistrict_LastWins(query_lower) ==
  LET hits == SelectSeq(district_keywords, LAMBDA e : Contains(query_lower, e[1]))
  IN  IF hits = <<>> THEN None ELSE hits[Len(hits)][2]

\* The district retained: the search term of the first lexicon entry, in
\* declaration order, whose keyword occurs in the text; None without one.
FirstDistrict(query_lower) ==
  LET hits == SelectSeq(district_keywords, LAMBDA e : Contains(query_lower, e[1]))
  IN  IF hits = <<>> THEN None ELSE hits[1][2]

\* One code appended per matching lexicon entry, in declaration order.
\* MatchedGroups that keeps, of the phrases found, only those that are not
\* part of a longer phrase found.
MatchedGroups_LongestOnly(query_lower) ==
  LET hits == SelectSeq(student_group_patterns, LAMBDA e : Contains(query_lower, e[1]))
      kept == SelectSeq(hits, LAMBDA e :
                \A k \in 1..Len(hits) : hits[k][1] = e[1] \/ ~Contains(hits[k][1], e[1]))
  IN  [k \in 1..Len(kept) |-> kept[k][2]]

MatchedGroups(query_lower) ==
  LET hits == SelectSeq(student_group_patterns, LAMBDA e : Contains(query_lower, e[1]))
  IN  [k \in 1..Len(hits) |-> hits[k][2]]

MatchedColors(query_lower) ==
  LET hits == SelectSeq(color_words, LAMBDA w : Contains(query_lower, w))
  IN  [k \in 1..Len(hits) |-> Title(hits[k])]

MatchedIndicators(query_lower) ==
     (IF ContainsAny(query_lower, absenteeism_words) THEN <<"chronic_absenteeism">> ELSE <<>>)
  \o (IF ContainsAny(query_lower, ela_words) THEN <<"ela_performance">> ELSE <<>>)
  \o (IF ContainsAny(query_lower, math_words) THEN <<"math_performance">> ELSE <<>>)

\* parse_query_with_patterns whose problem-phrase rule overwrites the
\* colours the text names.
parse_query_with_patterns_DefaultOverrides(user_query) ==
  LET query_lower == Lower(user_query)
      colors      == MatchedColors(query_lower)
      unavailable == ContainsAny(query_lower, unavailable_terms)
  IN  [ district_name     |-> FirstDistrict(query_lower),
        school_name       |-> None,
        colors            |-> IF ContainsAny(query_lower, problem_phrases)
                                THEN <<Red, Orange>>
                                ELSE colors,
        indicators        |-> MatchedIndicators(query_lower),
        student_groups    |-> MatchedGroups(query_lower),
        data_availability |-> IF unavailable THEN "not_available" ELSE "available",
        explanation       |-> IF unavailable THEN Explanation_unavailable
                                             ELSE Explanation_patterns ]

\* parse_query_with_patterns that looks for the unavailable terms in the
\* text as typed instead of in its lower-case form.
parse_query_with_patterns_CaseSensitive(user_query) ==
  LET query_lower == Lower(user_query)
      colors      == MatchedColors(query_lower)
      unavailable == ContainsAny(user_query, unavailable_terms)
  IN  [ district_name     |-> FirstDistrict(query_lower),
        school_name       |-> None,
        colors            |-> IF ContainsAny(query_lower, problem_phrases) /\ colors = <<>>
                                THEN <<Red, Orange>>
                                ELSE colors,
        indicators        |-> MatchedIndicators(query_lower),
        student_groups    |-> MatchedGroups(query_lower),
        data_availability |-> IF unavailable THEN "not_available" ELSE "available",
        explanation       |-> IF unavailable THEN Explanation_unavailable
                                             ELSE Explanation_patterns ]

parse_query_with_patterns(user_query) ==
  LET query_lower == Lower(user_query)
      colors      == MatchedColors(query_lower)
      unavailable == ContainsAny(query_lower, unavailable_terms)
  IN  [ district_name     |-> FirstDistrict(query_lower),
        school_name       |-> None,
        colors            |-> IF ContainsAny(query_lower, problem_phrases) /\ colors = <<>>
                                THEN <<Red, Orange>>
                                ELSE colors,
        indicators        |-> MatchedIndicators(query_lower),
        student_groups    |-> MatchedGroups(query_lower),
        data_availability |-> IF unavailable THEN "not_available" ELSE "available",
        explanation       |-> IF unavailable THEN Explanation_unavailable
                                             ELSE Explanation_patterns ]

(***************************************************************************)
(* Filter compiler                                                         *)
(***************************************************************************)

\* `if d.get(key):` for a key that holds a text: false for a missing key,
\* for None and for the empty text.
HasText(d, key) == key \in DOMAIN d /\ d[key] # None /\ d[key] # <<>>

\* `if d.get(key):` for a key that holds a list: false for a missing key (or
\* a JSON null, which is modelled as the key missing) and for the empty list.
HasList(d, key) == key \in DOMAIN d /\ d[key] # <<>>

\* The indicators the compiler enumerates when the intent names none.
RegistryIndicators == <<"chronic_absenteeism", "ela_performance", "math_performance">>

\* {"<field path>": {"$in": colors}}; a dotted path is the tuple of its segments.
ColorCondition(path, colors) == [path |-> path, op |-> "$in", arg |-> colors]

\* ColorConditions with the student groups ignored: every condition targets
\* the overall indicators.
ColorConditions_OverallOnly(parsed_query) ==
  LET inds == IF HasList(parsed_query, "indicators")
                THEN parsed_query.indicators
                ELSE RegistryIndicators
  IN  [k \in 1..Len(inds) |->
         ColorCondition(<<"dashboard_indicators", inds[k], "status">>, parsed_query.colors)]

ColorConditions(parsed_query) ==
  LET colors == parsed_query.colors
      inds   == IF HasList(parsed_query, "indicators")
                  THEN parsed_query.indicators
                  ELSE RegistryIndicators
      n      == Len(inds)
  IN  IF HasList(parsed_query, "student_groups")
        THEN LET groups == parsed_query.student_groups
             IN  [k \in 1..(Len(groups) * n) |->
                    ColorCondition(<<"student_groups", groups[((k - 1) \div n) + 1],
                                     inds[((k - 1) % n) + 1], "status">>, colors)]
        ELSE [k \in 1..n |->
                ColorCondition(<<"dashboard_indicators", inds[k], "status">>, colors)]

RegexFilter(pattern) == [regex |-> pattern, options |-> "i"]

\* build_mongodb_query without the district and school filters.
build_mongodb_query_ColorsOnly(parsed_query) ==
  IF HasList(parsed_query, "colors")
    THEN "$or" :> ColorConditions(parsed_query)
    ELSE <<>>

build_mongodb_query(parsed_query) ==
  LET district == IF HasText(parsed_query, "district_name")
                    THEN "district_name" :> RegexFilter(parsed_query.district_name)
                    ELSE <<>>
      school   == IF HasText(parsed_query, "school_name")
                    THEN "school_name" :> RegexFilter(parsed_query.school_name)
                    ELSE <<>>
      colour   == IF HasList(parsed_query, "colors")
                       /\ ColorConditions(parsed_query) # <<>>
                    THEN "$or" :> ColorConditions(parsed_query)
                    ELSE <<>>
  IN  district @@ school @@ colour

(***************************************************************************)
(* Document store                                                          *)
(***************************************************************************)

\* The value at a dotted path of a document: <<v>>, or <<>> when a segment
\* is missing.
RECURSIVE Resolve(_, _)
Resolve(doc, path) ==
  IF path = <<>> THEN <<doc>>
  ELSE IF Head(path) \in DOMAIN doc THEN Resolve(doc[Head(path)], Tail(path))
  ELSE <<>>

\* One {"<path>": {"$in": [...]}} condition of a $or list against a document:
\* the field exists and holds one of the listed values.
ConditionHolds(doc, cond) ==
  LET at == Resolve(doc, cond.path)
  IN  at # <<>> /\ \E k \in 1..Len(cond.arg) : cond.arg[k] = at[1]

\* {"$regex": pattern, "$options": "i"} with a pattern of letters and spaces:
\* the field holds the pattern somewhere, letter case ignored.
RegexHolds(doc, field, flt) ==
  /\ field \in DOMAIN doc
  /\ Contains(Lower(doc[field]), Lower(flt.regex))

\* A filter document matches when every top-level key does.
Matches(doc, query_filter) ==
  \A key \in DOMAIN query_filter :
     IF key = "$or"
       THEN \E k \in 1..Len(query_filter[key]) : ConditionHolds(doc, query_filter[key][k])
       ELSE RegexHolds(doc, key, query_filter[key])


\* Limit that lets every document through.
Limit_Unbounded(docs, n) == docs

\* cursor.limit(n)
Limit(docs, n) == SubSeq(docs, 1, IF Len(docs) < n THEN Len(docs) ELSE n)

FIND_LIMIT == 50

\* list(schools_collection.find(filter, {"_id": 0}).limit(50)): the matching
\* documents in the store's order, cut to the first 50.
Find(collection, query_filter) ==
  Limit(SelectSeq(collection, LAMBDA doc : Matches(doc, query_filter)), FIND_LIMIT)

\* One indicator observation as the import writes it: the status text and
\* the value under "rate" (percentages) or "points_below_standard" (ELA and
\* math), in tenths.
IndicatorData(indicator, status, value) ==
  IF indicator \in {"ela_performance", "math_performance"}
    THEN [status |-> status, change |-> 0, points_below_standard |-> value]
    ELSE [status |-> status, change |-> 0, rate |-> value]

\* SchoolDocument whose dashboard_indicators stay empty.
SchoolDocument_NoOverall(district, school, groups) ==
  [ district_name        |-> district,
    school_name          |-> school,
    dashboard_indicators |-> <<>>,
    student_groups       |-> groups ]

\* A school document as the import builds it: dashboard_indicators is the
\* ALL entry of student_groups, or {} without one.
SchoolDocument(district, school, groups) ==
  [ district_name        |-> district,
    school_name          |-> school,
    dashboard_indicators |-> IF "ALL" \in DOMAIN groups THEN groups["ALL"] ELSE <<>>,
    student_groups       |-> groups ]

(***************************************************************************)
(* AI intent extraction                                                    *)
(***************************************************************************)

\* A reply of the completion service is a sequence of tokens: a stretch of
\* prose without braces, an opening or a closing brace, or the members of a
\* JSON object (the text between its braces) standing for the dict v.
Prose == [t |-> "prose", v |-> <<>>]

LBrace == [t |-> "{", v |-> <<>>]

RBrace == [t |-> "}", v |-> <<>>]

Members(v) == [t |-> "members", v |-> v]

\* JsonMatch with the non-greedy pattern \{.*?\}: from the first opening
\* brace to the first closing brace after it.
JsonMatch_NonGreedy(text) ==
  LET opens  == {k \in 1..Len(text) : text[k] = LBrace}
      first  == CHOOSE k \in opens : \A j \in opens : k <= j
      closes == {k \in 1..Len(text) : text[k] = RBrace /\ k > first}
      next   == CHOOSE k \in closes : \A j \in closes : k <= j
  IN  IF opens = {} THEN <<>>
      ELSE IF closes = {} THEN <<>>
      ELSE SubSeq(text, first, next)

\* re.search(r'\{.*\}', text, re.DOTALL).group(): from the first opening
\* brace to the last closing brace after it; <<>> when there is no match.
JsonMatch(text) ==
  LET opens  == {k \in 1..Len(text) : text[k] = LBrace}
      first  == CHOOSE k \in opens : \A j \in opens : k <= j
      closes == {k \in 1..Len(text) : text[k] = RBrace /\ k > first}
      last   == CHOOSE k \in closes : \A j \in closes : j <= k
  IN  IF opens = {} THEN <<>>
      ELSE IF closes = {} THEN <<>>
      ELSE SubSeq(text, first, last)

\* json.loads on the matched span: <<dict>>, or <<>> when it raises. The
\* span is an object when it is one pair of braces around nothing or around
\* the members of one object.
JsonLoads(span) ==
  IF span = <<LBrace, RBrace>> THEN << <<>> >>
  ELSE IF Len(span) = 3 /\ span[1] = LBrace /\ span[2].t = "members" /\ span[3] = RBrace
    THEN <<span[2].v>>
  ELSE <<>>

\* What model.generate_content does for one call: it raises, or returns a
\* response whose text is the token sequence.
Raises == [kind |-> "raise", text |-> <<>>]

Returns(text) == [kind |-> "text", text |-> text]

\* analyze_query_with_gemini that hands the whole reply to json.loads
\* instead of the span the pattern matched.
analyze_query_with_gemini_WholeReply(completion) ==
  IF completion.kind = "raise" THEN <<>>
  ELSE JsonLoads(completion.text)

\* analyze_query_with_gemini: <<dict>>, or <<>> for None (no match, invalid
\* JSON and every exception return None).
analyze_query_with_gemini(completion) ==
  IF completion.kind = "raise" THEN <<>>
  ELSE IF JsonMatch(completion.text) = <<>> THEN <<>>
  ELSE JsonLoads(JsonMatch(completion.text))

\* `if ai_parsed:` -- None and the empty dict are false.
UsableIntent(ai_parsed) == ai_parsed # <<>> /\ DOMAIN ai_parsed[1] # {}

parse_query_with_real_ai(user_query, enabled, completion) ==
  IF enabled /\ UsableIntent(analyze_query_with_gemini(completion))
    THEN analyze_query_with_gemini(completion)[1]
    ELSE parse_query_with_patterns(user_query)

(***************************************************************************)
(* Result explainer                                                        *)
(***************************************************************************)

\* f"{value:.1f}" of a value held in tenths.
OneDecimal(v) ==
  LET a == IF v < 0 THEN -v ELSE v
  IN  [minus |-> v < 0, whole |-> a \div 10, tenth |-> a % 10]

\* The order in which a document's indicator dict is walked: the order in
\* which the import inserted the indicators.
IndicatorOrder ==
  << "chronic_absenteeism", "ela_performance", "math_performance", "suspension_rate",
     "college_career", "graduation_rate", "english_learner_progress" >>

\* data.get("rate", data.get("points_below_standard", 0))
IndicatorValue(data) ==
  IF "rate" \in DOMAIN data THEN data.rate
  ELSE IF "points_below_standard" \in DOMAIN data THEN data.points_below_standard
  ELSE 0

\* IndicatorLines with `value > 0` in place of `value >= 0`.
IndicatorLines_ZeroBelow(indicator, data) ==
  LET status == IF "status" \in DOMAIN data THEN data.status ELSE Unknown
      value  == IndicatorValue(data)
      absval == IF value < 0 THEN -value ELSE value
  IN  IF "status" \in DOMAIN data /\ data.status = NoData THEN <<>>
      ELSE IF indicator = "chronic_absenteeism"
        THEN << [indicator |-> indicator, status |-> status,
                 value |-> OneDecimal(value), phrase |-> "% students chronically absent"] >>
      ELSE IF indicator \in {"ela_performance", "math_performance"}
        THEN IF value > 0
               THEN << [indicator |-> indicator, status |-> status,
                        value |-> OneDecimal(value), phrase |-> "points above standard"] >>
               ELSE << [indicator |-> indicator, status |-> status,
                        value |-> OneDecimal(absval), phrase |-> "points below standard"] >>
      ELSE <<>>

\* The lines one indicator of the overall breakdown contributes.
IndicatorLines(indicator, data) ==
  LET status == IF "status" \in DOMAIN data THEN data.status ELSE Unknown
      value  == IndicatorValue(data)
      absval == IF value < 0 THEN -value ELSE value
  IN  IF "status" \in DOMAIN data /\ data.status = NoData THEN <<>>
      ELSE IF indicator = "chronic_absenteeism"
        THEN << [indicator |-> indicator, status |-> status,
                 value |-> OneDecimal(value), phrase |-> "% students chronically absent"] >>
      ELSE IF indicator \in {"ela_performance", "math_performance"}
        THEN IF value >= 0
               THEN << [indicator |-> indicator, status |-> status,
                        value |-> OneDecimal(value), phrase |-> "points above standard"] >>
               ELSE << [indicator |-> indicator, status |-> status,
                        value |-> OneDecimal(absval), phrase |-> "points below standard"] >>
      ELSE <<>>

RECURSIVE BreakdownLines(_, _)
BreakdownLines(indicators, k) ==
  IF k > Len(IndicatorOrder) THEN <<>>
  ELSE (IF IndicatorOrder[k] \in DOMAIN indicators
          THEN IndicatorLines(IndicatorOrder[k], indicators[IndicatorOrder[k]])
          ELSE <<>>)
       \o BreakdownLines(indicators, k + 1)

generate_template_response(results, parsed_query) ==
  IF Len(results) = 1
    THEN LET school == results[1]
         IN  [ kind          |-> "breakdown",
               school_name   |-> school.school_name,
               district_name |-> school.district_name,
               overall       |-> school.dashboard_indicators # <<>>,
               lines         |-> BreakdownLines(school.dashboard_indicators, 1) ]
    ELSE [kind |-> "summary", found |-> Len(results)]

DefaultExplanation == "Requested data is not in the current dataset."

NotAvailableMessage(parsed_query) ==
  [ kind        |-> "not_available",
    explanation |-> IF "explanation" \in DOMAIN parsed_query
                      THEN parsed_query.explanation
                      ELSE DefaultExplanation ]

NoMatchMessage == [kind |-> "no_match"]

IsNotAvailable(parsed_query) ==
  /\ "data_availability" \in DOMAIN parsed_query
  /\ parsed_query.data_availability = "not_available"

AI_RESULT_LIMIT == 10

\* ReachesAnalysis without the cap on the number of records.
ReachesAnalysis_NoLimit(results, parsed_query, enabled) ==
  /\ ~IsNotAvailable(parsed_query)
  /\ results # <<>>
  /\ enabled

\* The explainer gets as far as generate_ai_analysis.
ReachesAnalysis(results, parsed_query, enabled) ==
  /\ ~IsNotAvailable(parsed_query)
  /\ results # <<>>
  /\ enabled /\ Len(results) <= AI_RESULT_LIMIT

\* str.strip() of a narrative: a text of white space only becomes empty.
Strip(text) == IF text = " " THEN "" ELSE text

\* What the try block around generate_ai_analysis leaves in ai_response:
\* <<text>>, or <<>> for None. Building the prompt may raise before the
\* completion is invoked, the completion may raise, return no response
\* object, or return a text.
generate_ai_analysis(completion) ==
  IF completion.kind = "text" THEN <<Strip(completion.text)>> ELSE <<>>

\* generate_intelligent_response with `if ai_response is not None:` in place
\* of `if ai_response:`.
generate_intelligent_response_NotNone(results, parsed_query, enabled, completion) ==
  IF IsNotAvailable(parsed_query) THEN NotAvailableMessage(parsed_query)
  ELSE IF results = <<>> THEN NoMatchMessage
  ELSE IF /\ enabled /\ Len(results) <= AI_RESULT_LIMIT
          /\ generate_ai_analysis(completion) # <<>>
    THEN [kind |-> "ai", text |-> generate_ai_analysis(completion)[1]]
  ELSE generate_template_response(results, parsed_query)

\* generate_intelligent_response with the empty-result check moved in front
\* of the availability check.
generate_intelligent_response_EmptyFirst(results, parsed_query, enabled, completion) ==
  IF results = <<>> THEN NoMatchMessage
  ELSE IF IsNotAvailable(parsed_query) THEN NotAvailableMessage(parsed_query)
  ELSE IF /\ enabled /\ Len(results) <= AI_RESULT_LIMIT
          /\ generate_ai_analysis(completion) # <<>>
          /\ generate_ai_analysis(completion)[1] # ""
    THEN [kind |-> "ai", text |-> generate_ai_analysis(completion)[1]]
  ELSE generate_template_response(results, parsed_query)

\* generate_intelligent_response without the `if not results:` return.
generate_intelligent_response_NoEmptyCheck(results, parsed_query, enabled, completion) ==
  IF IsNotAvailable(parsed_query) THEN NotAvailableMessage(parsed_query)
  ELSE IF /\ enabled /\ Len(results) <= AI_RESULT_LIMIT
          /\ generate_ai_analysis(completion) # <<>>
          /\ generate_ai_analysis(completion)[1] # ""
    THEN [kind |-> "ai", text |-> generate_ai_analysis(completion)[1]]
  ELSE generate_template_response(results, parsed_query)

\* generate_intelligent_response, given what the analysis call produced
\* (read only where ReachesAnalysis holds).
generate_intelligent_response(results, parsed_query, enabled, completion) ==
  IF IsNotAvailable(parsed_query) THEN NotAvailableMessage(parsed_query)
  ELSE IF results = <<>> THEN NoMatchMessage
  ELSE IF /\ enabled /\ Len(results) <= AI_RESULT_LIMIT
          /\ generate_ai_analysis(completion) # <<>>
          /\ generate_ai_analysis(completion)[1] # ""
    THEN [kind |-> "ai", text |-> generate_ai_analysis(completion)[1]]
  ELSE generate_template_response(results, parsed_query)

(***************************************************************************)
(* Inputs                                                                  *)
(***************************************************************************)

\* The longest indicator list and student-group list of an intent.
MaxList == 2

\* Requests the server holds at once.
NumRequests == 2

Requests == 1..NumRequests

\* All lists of at most n elements of S (a Python list may repeat a value).
ListsUpTo(S, n) == UNION {[1..m -> S] : m \in 0..n}

Sunnyvale_Elementary == <<"S","u","n","n","y","v","a","l","e"," ","E","l","e","m","e","n","t","a","r","y">>

Oakland_Unified == <<"O","a","k","l","a","n","d"," ","U","n","i","f","i","e","d">>

Bishop_Elementary == <<"B","i","s","h","o","p"," ","E","l","e","m","e","n","t","a","r","y">>

Lincoln_High == <<"L","i","n","c","o","l","n"," ","H","i","g","h">>

\* The student-group breakdowns of the sample schools: each cell is absent
\* or holds one observation.
SampleGroups ==
  { (IF all = <<>> THEN <<>> ELSE "ALL" :> all)
      @@ (IF el = "-" THEN <<>>
          ELSE "EL" :> ("math_performance" :> IndicatorData("math_performance", el, -255)))
      @@ (IF hi = "-" THEN <<>>
          ELSE "HI" :> ("chronic_absenteeism" :> IndicatorData("chronic_absenteeism", hi, 180)))
    : all \in { (IF m = "-" THEN <<>>
                 ELSE "math_performance" :> IndicatorData("math_performance", m, 123))
                @@ (IF c = "-" THEN <<>>
                    ELSE "chronic_absenteeism" :> IndicatorData("chronic_absenteeism", c, 215))
                : m \in {"-", Red, Green}, c \in {"-", Red} },
      el \in {"-", Red, Green},
      hi \in {"-", Orange} }

SampleDocuments ==
  { SchoolDocument(n[1], n[2], g) :
      n \in {<<Sunnyvale_Elementary, Bishop_Elementary>>, <<Oakland_Unified, Lincoln_High>>},
      g \in SampleGroups }

\* Intents handed to the filter compiler: what either extraction strategy
\* can return, with every field the compiler reads.
FilterIntents ==
  { [ district_name     |-> d,
      school_name       |-> s,
      colors            |-> c,
      indicators        |-> i,
      student_groups    |-> g,
      data_availability |-> a ] :
      d \in {None, Lower(SubSeq(Sunnyvale_Elementary, 1, 9))},
      s \in {None, Bishop_Elementary},
      c \in {<<>>, <<Red>>, <<Red, Orange>>, <<Green>>},
      i \in ListsUpTo({"math_performance", "chronic_absenteeism"}, MaxList),
      g \in ListsUpTo({"EL", "HI"}, MaxList),
      a \in {"available", "not_available"} }
  \cup
  { [ district_name     |-> None,
      school_name       |-> None,
      colors            |-> c,
      indicators        |-> i,
      student_groups    |-> g,
      data_availability |-> "available" ] :
      c \in {<<>>, <<Red>>},
      i \in { <<"english_learner_progress">>,
              <<"english_learner_progress", "math_performance">> },
      g \in {<<>>, <<"EL">>} }

\* The texts a request may carry.
Queries ==
  { <<>>   \* ""
  , <<"R","e","d"," ","m","a","t","h"," ","i","n"," ","S","u","n","n","y","v","a","l","e">>   \* "Red math in Sunnyvale"
  , <<"s","u","s","p","e","n","s","i","o","n"," ","i","n"," ","s","u","n","n","y","v","a","l","e">>   \* "suspension in sunnyvale"
  , <<"e","l","p","a","c">>   \* "elpac"
  , <<"m","a","t","h">>   \* "math"
  , <<"s","t","r","u","g","g","l","i","n","g"," ","h","i","s","p","a","n","i","c">>   \* "struggling hispanic"
  }

\* The store holds the first n documents of a repeating pattern of three
\* schools, for every n up to MaxStore, or one document more than the
\* lookup's cap.
MaxStore == 12

StorePattern ==
  << SchoolDocument(Sunnyvale_Elementary, Bishop_Elementary,
       ("ALL" :> (("math_performance" :> IndicatorData("math_performance", Red, -255))
                  @@ ("chronic_absenteeism" :> IndicatorData("chronic_absenteeism", Orange, 215))))
       @@ ("HI" :> ("chronic_absenteeism" :> IndicatorData("chronic_absenteeism", Red, 301)))),
     SchoolDocument(Oakland_Unified, Lincoln_High,
       ("ALL" :> (("math_performance" :> IndicatorData("math_performance", Green, 123))
                  @@ ("ela_performance" :> IndicatorData("ela_performance", NoData, 0))))
       @@ ("EL" :> ("math_performance" :> IndicatorData("math_performance", Red, -400)))),
     SchoolDocument(Sunnyvale_Elementary, Lincoln_High,
       "EL" :> ("english_learner_progress" :>
                  IndicatorData("english_learner_progress", Unknown, 480))) >>

StoreOfSize(n) == [k \in 1..n |-> StorePattern[((k - 1) % Len(StorePattern)) + 1]]

Stores == {StoreOfSize(n) : n \in (0..MaxStore) \cup {FIND_LIMIT + 1}}

\* Intents the AI strategy may send back: complete ones, one that marks the
\* request not available, and one with most fields left out.
ReplyIntents ==
  { [ district_name |-> Lower(SubSeq(Sunnyvale_Elementary, 1, 9)), school_name |-> None,
      colors |-> <<Red>>, indicators |-> <<"math_performance">>, student_groups |-> <<>>,
      data_availability |-> "available", explanation |-> "math is available" ],
    [ district_name |-> None, school_name |-> Lincoln_High,
      colors |-> <<Red, Orange>>, indicators |-> <<>>, student_groups |-> <<"EL", "HI">>,
      data_availability |-> "available", explanation |-> "all indicators" ],
    [ district_name |-> Lower(SubSeq(Sunnyvale_Elementary, 1, 9)), school_name |-> None,
      colors |-> <<>>, indicators |-> <<>>, student_groups |-> <<>>,
      data_availability |-> "not_available", explanation |-> "suspension data is not available" ],
    [ colors |-> <<Green>> ],
    [ data_availability |-> "not_available" ] }

\* What the completion service may do when asked for an intent.
IntentCompletions ==
  { Raises,
    Returns(<<Prose>>),
    Returns(<<LBrace, Prose, RBrace>>),
    Returns(<<RBrace, Prose, LBrace>>),
    Returns(<<LBrace, RBrace>>) }
  \cup { Returns(<<LBrace, Members(i), RBrace>>) : i \in ReplyIntents }
  \cup { Returns(<<Prose, LBrace, Members(i), RBrace, Prose>>) : i \in ReplyIntents }
  \cup { Returns(<<LBrace, Members(i), RBrace, Prose, RBrace>>) : i \in ReplyIntents }
  \cup { Returns(<<LBrace, Prose, LBrace, Members(i), RBrace>>) : i \in ReplyIntents }
  \cup { Returns(<<RBrace, Prose, LBrace, Members(i), RBrace, Prose, LBrace>>) :
            i \in ReplyIntents }

\* What may happen when the explainer asks for a narrative: building the
\* prompt raises, the completion raises, it returns no response object, or
\* it returns a text (empty, blank or not).
NarrativeCompletions ==
  { [kind |-> "prompt_error", text |-> ""],
    [kind |-> "raise", text |-> ""],
    [kind |-> "none", text |-> ""],
    [kind |-> "text", text |-> ""],
    [kind |-> "text", text |-> " "],
    [kind |-> "text", text |-> "Analysis of the matching schools"] }

(***************************************************************************)
(* State                                                                   *)
(***************************************************************************)

VARIABLES
  AI_ENABLED,    \* module global set once when the process starts
  store,         \* schools_collection: the documents in the store's order
  pc,            \* where each request's handler stands
  user_query,    \* request.json['query']
  parsed_query,  \* the intent
  mongo_query,   \* the compiled filter
  results,       \* the documents the lookup returned
  reply,         \* the HTTP response of the request
  calls,         \* how often the request invoked each collaborator or stage
  completions,   \* what the completion service did for the request
  failures,      \* the failure classes the request ran into
  schools,       \* the import's schools in the order of their first row
  documents,     \* the documents the import created
  import_pc      \* where the import stands

vars == <<AI_ENABLED, store, pc, user_query, parsed_query, mongo_query,
          results, reply, calls, completions, failures,
          schools, documents, import_pc>>

\* The import's variables.
import_vars == <<schools, documents, import_pc>>

\* The import is not running.
ImportIdle ==
  /\ schools = <<>>
  /\ documents = <<>>
  /\ import_pc = [phase |-> "off", file |-> 0, rows |-> 0]

NoReply == [status |-> 0]

NoCalls ==
  [ completion_intent |-> 0, completion_narrative |-> 0, patterns |-> 0,
    find |-> 0, explainer |-> 0 ]

\* The completion service was not asked for an intent, or for a narrative.
NoCompletions ==
  [ intent    |-> [kind |-> "not asked", text |-> <<>>],
    narrative |-> [kind |-> "not asked", text |-> ""] ]

\* A request that has not arrived.
IdleRequests ==
  /\ pc = [r \in Requests |-> "idle"]
  /\ user_query = [r \in Requests |-> None]
  /\ parsed_query = [r \in Requests |-> <<>>]
  /\ mongo_query = [r \in Requests |-> <<>>]
  /\ results = [r \in Requests |-> <<>>]
  /\ reply = [r \in Requests |-> NoReply]
  /\ calls = [r \in Requests |-> NoCalls]
  /\ completions = [r \in Requests |-> NoCompletions]
  /\ failures = [r \in Requests |-> {}]

(***************************************************************************)
(* The filter compiler and the store lookup on their own: an intent is     *)
(* compiled, then the lookup runs against a store of one document.         *)
(***************************************************************************)

FilterInit ==
  /\ AI_ENABLED = FALSE
  /\ store = <<>>
  /\ \E i \in FilterIntents :
       /\ pc = [r \in Requests |-> IF r = 1 THEN "compile" ELSE "idle"]
       /\ parsed_query = [r \in Requests |-> IF r = 1 THEN i ELSE <<>>]
  /\ user_query = [r \in Requests |-> None]
  /\ mongo_query = [r \in Requests |-> <<>>]
  /\ results = [r \in Requests |-> <<>>]
  /\ reply = [r \in Requests |-> NoReply]
  /\ calls = [r \in Requests |-> NoCalls]
  /\ completions = [r \in Requests |-> NoCompletions]
  /\ failures = [r \in Requests |-> {}]
  /\ ImportIdle

CompileFilter(r) ==
  /\ pc[r] = "compile"
  /\ mongo_query' = [mongo_query EXCEPT ![r] = build_mongodb_query(parsed_query[r])]
  /\ pc' = [pc EXCEPT ![r] = "probe"]
  /\ UNCHANGED <<AI_ENABLED, store, user_query, parsed_query, results, reply,
                 calls, completions, failures>>
  /\ UNCHANGED import_vars

ProbeStore(r) ==
  /\ pc[r] = "probe"
  /\ \E doc \in SampleDocuments :
       /\ store' = <<doc>>
       /\ results' = [results EXCEPT ![r] = Find(<<doc>>, mongo_query[r])]
  /\ calls' = [calls EXCEPT ![r].find = @ + 1]
  /\ pc' = [pc EXCEPT ![r] = "probed"]
  /\ UNCHANGED <<AI_ENABLED, user_query, parsed_query, mongo_query, reply,
                 completions, failures>>
  /\ UNCHANGED import_vars

FilterNext == CompileFilter(1) \/ ProbeStore(1)

SpecFilter == FilterInit /\ [][FilterNext]_vars

(***************************************************************************)
(* The /query handler                                                      *)
(***************************************************************************)

ErrorReply(detail) ==
  [ status |-> 500, response |-> [kind |-> "error", detail |-> detail],
    schools |-> <<>>, query_used |-> <<>> ]

SuccessReply(narrative, found, intent, query_filter) ==
  [ status |-> 200, response |-> narrative, schools |-> found,
    parsed_query |-> intent, query_used |-> query_filter ]

Init ==
  /\ AI_ENABLED \in BOOLEAN
  /\ store \in Stores
  /\ IdleRequests
  /\ ImportIdle

\* A POST /query arrives with a JSON body that holds the query text.
Receive(r) ==
  /\ pc[r] = "idle"
  /\ \E q \in Queries : user_query' = [user_query EXCEPT ![r] = q]
  /\ pc' = [pc EXCEPT ![r] = "extract"]
  /\ UNCHANGED <<AI_ENABLED, store, parsed_query, mongo_query, results, reply,
                 calls, completions, failures>>
  /\ UNCHANGED import_vars

\* A POST /query arrives without a 'query' key: request.json['query'] raises
\* inside the handler's try block.
ReceiveMalformed(r) ==
  /\ pc[r] = "idle"
  /\ reply' = [reply EXCEPT ![r] = ErrorReply("KeyError")]
  /\ failures' = [failures EXCEPT ![r] = @ \cup {"request"}]
  /\ pc' = [pc EXCEPT ![r] = "done"]
  /\ UNCHANGED <<AI_ENABLED, store, user_query, parsed_query, mongo_query, results,
                 calls, completions>>
  /\ UNCHANGED import_vars

\* ExtractWithAI that asks the completion service again after a reply it
\* cannot use, instead of falling back.
ExtractWithAI_Retry(r) ==
  /\ pc[r] = "extract"
  /\ AI_ENABLED
  /\ \E completion \in IntentCompletions :
       LET intent == parse_query_with_real_ai(user_query[r], AI_ENABLED, completion)
           usable == UsableIntent(analyze_query_with_gemini(completion))
       IN  /\ parsed_query' = [parsed_query EXCEPT ![r] = IF usable THEN intent ELSE @]
           /\ mongo_query' = [mongo_query EXCEPT ![r] =
                                IF usable THEN build_mongodb_query(intent) ELSE @]
           /\ calls' = [calls EXCEPT ![r].completion_intent = @ + 1]
           /\ completions' = [completions EXCEPT ![r].intent = completion]
           /\ failures' = [failures EXCEPT ![r] =
                             IF usable THEN @ ELSE @ \cup {"extraction"}]
           /\ pc' = [pc EXCEPT ![r] = IF usable THEN "lookup" ELSE "extract"]
  /\ UNCHANGED <<AI_ENABLED, store, user_query, results, reply>>
  /\ UNCHANGED import_vars

\* ExtractWithAI that switches the AI off for the whole process once the
\* completion fails.
ExtractWithAI_SwitchOff(r) ==
  /\ pc[r] = "extract"
  /\ AI_ENABLED
  /\ \E completion \in IntentCompletions :
       LET intent == parse_query_with_real_ai(user_query[r], AI_ENABLED, completion)
           usable == UsableIntent(analyze_query_with_gemini(completion))
       IN  /\ parsed_query' = [parsed_query EXCEPT ![r] = intent]
           /\ mongo_query' = [mongo_query EXCEPT ![r] = build_mongodb_query(intent)]
           /\ calls' = [calls EXCEPT ![r].completion_intent = @ + 1,
                                     ![r].patterns = IF usable THEN @ ELSE @ + 1]
           /\ completions' = [completions EXCEPT ![r].intent = completion]
           /\ failures' = [failures EXCEPT ![r] =
                             IF usable THEN @ ELSE @ \cup {"extraction"}]
           /\ AI_ENABLED' = usable
  /\ pc' = [pc EXCEPT ![r] = "lookup"]
  /\ UNCHANGED <<store, user_query, results, reply>>
  /\ UNCHANGED import_vars

\* parse_query_with_real_ai with the AI strategy, then build_mongodb_query.
ExtractWithAI(r) ==
  /\ pc[r] = "extract"
  /\ AI_ENABLED
  /\ \E completion \in IntentCompletions :
       LET intent == parse_query_with_real_ai(user_query[r], AI_ENABLED, completion)
           usable == UsableIntent(analyze_query_with_gemini(completion))
       IN  /\ parsed_query' = [parsed_query EXCEPT ![r] = intent]
           /\ mongo_query' = [mongo_query EXCEPT ![r] = build_mongodb_query(intent)]
           /\ calls' = [calls EXCEPT ![r].completion_intent = @ + 1,
                                     ![r].patterns = IF usable THEN @ ELSE @ + 1]
           /\ completions' = [completions EXCEPT ![r].intent = completion]
           /\ failures' = [failures EXCEPT ![r] =
                             IF usable THEN @ ELSE @ \cup {"extraction"}]
  /\ pc' = [pc EXCEPT ![r] = "lookup"]
  /\ UNCHANGED <<AI_ENABLED, store, user_query, results, reply>>
  /\ UNCHANGED import_vars

\* parse_query_with_real_ai with AI disabled, then build_mongodb_query.
ExtractWithoutAI(r) ==
  /\ pc[r] = "extract"
  /\ ~AI_ENABLED
  /\ LET intent == parse_query_with_real_ai(user_query[r], AI_ENABLED, Raises)
     IN  /\ parsed_query' = [parsed_query EXCEPT ![r] = intent]
         /\ mongo_query' = [mongo_query EXCEPT ![r] = build_mongodb_query(intent)]
  /\ calls' = [calls EXCEPT ![r].patterns = @ + 1]
  /\ pc' = [pc EXCEPT ![r] = "lookup"]
  /\ UNCHANGED <<AI_ENABLED, store, user_query, results, reply, completions, failures>>
  /\ UNCHANGED import_vars

\* LookupFails that swallows the exception and explains an empty result.
LookupFails_EmptyResults(r) ==
  /\ pc[r] = "lookup"
  /\ calls' = [calls EXCEPT ![r].find = @ + 1, ![r].explainer = @ + 1]
  /\ failures' = [failures EXCEPT ![r] = @ \cup {"store"}]
  /\ reply' = [reply EXCEPT ![r] =
       SuccessReply(generate_intelligent_response(<<>>, parsed_query[r], AI_ENABLED, Raises),
                    <<>>, parsed_query[r], mongo_query[r])]
  /\ pc' = [pc EXCEPT ![r] = "done"]
  /\ UNCHANGED <<AI_ENABLED, store, user_query, parsed_query, mongo_query, results,
                 completions>>
  /\ UNCHANGED import_vars

\* schools_collection.find raises: the handler's except block answers.
LookupFails(r) ==
  /\ pc[r] = "lookup"
  /\ calls' = [calls EXCEPT ![r].find = @ + 1]
  /\ failures' = [failures EXCEPT ![r] = @ \cup {"store"}]
  /\ reply' = [reply EXCEPT ![r] = ErrorReply("store lookup failed")]
  /\ pc' = [pc EXCEPT ![r] = "done"]
  /\ UNCHANGED <<AI_ENABLED, store, user_query, parsed_query, mongo_query, results,
                 completions>>
  /\ UNCHANGED import_vars

\* schools_collection.find returns; generate_intelligent_response runs up
\* to its return, or up to the call of generate_ai_analysis.
LookupSucceeds(r) ==
  /\ pc[r] = "lookup"
  /\ LET found == Find(store, mongo_query[r])
     IN  /\ results' = [results EXCEPT ![r] = found]
         /\ IF ReachesAnalysis(found, parsed_query[r], AI_ENABLED)
              THEN /\ pc' = [pc EXCEPT ![r] = "narrate"]
                   /\ UNCHANGED reply
              ELSE /\ pc' = [pc EXCEPT ![r] = "done"]
                   /\ reply' = [reply EXCEPT ![r] =
                        SuccessReply(
                          generate_intelligent_response(found, parsed_query[r],
                                                        AI_ENABLED, Raises),
                          found, parsed_query[r], mongo_query[r])]
  /\ calls' = [calls EXCEPT ![r].find = @ + 1, ![r].explainer = @ + 1]
  /\ UNCHANGED <<AI_ENABLED, store, user_query, parsed_query, mongo_query,
                 completions, failures>>
  /\ UNCHANGED import_vars

\* generate_ai_analysis runs and generate_intelligent_response returns.
Narrate(r) ==
  /\ pc[r] = "narrate"
  /\ \E completion \in NarrativeCompletions :
       /\ reply' = [reply EXCEPT ![r] =
            SuccessReply(
              generate_intelligent_response(results[r], parsed_query[r],
                                            AI_ENABLED, completion),
              results[r], parsed_query[r], mongo_query[r])]
       /\ calls' = [calls EXCEPT ![r].completion_narrative =
                      IF completion.kind = "prompt_error" THEN @ ELSE @ + 1]
       /\ completions' = [completions EXCEPT ![r].narrative = completion]
       /\ failures' = [failures EXCEPT ![r] =
            IF completion.kind = "text" /\ Strip(completion.text) # ""
              THEN @ ELSE @ \cup {"narrative"}]
  /\ pc' = [pc EXCEPT ![r] = "done"]
  /\ UNCHANGED <<AI_ENABLED, store, user_query, parsed_query, mongo_query, results>>
  /\ UNCHANGED import_vars

handle_query(r) ==
  \/ Receive(r)
  \/ ReceiveMalformed(r)
  \/ ExtractWithAI(r)
  \/ ExtractWithoutAI(r)
  \/ LookupSucceeds(r)
  \/ LookupFails(r)
  \/ Narrate(r)

\* One request served on its own.
Next == handle_query(1)

Spec == Init /\ [][Next]_vars

(***************************************************************************)
(* Requests served at the same time                                        *)
(***************************************************************************)

\* The store of the concurrent runs: empty, or two schools.
ConcurrentStores == {StoreOfSize(0), StoreOfSize(Len(StorePattern) - 1)}

\* What the requests of the concurrent runs carry and what the completion
\* service does for them: a subset of Queries, IntentCompletions and
\* NarrativeCompletions.
ConcurrentQueries ==
  { q \in Queries : Len(q) \in 4..5 }   \* "math", "elpac"

ConcurrentIntentCompletions ==
  { Raises,
    Returns(<<LBrace, Members([colors |-> <<Green>>]), RBrace>>) }

ConcurrentNarrativeCompletions ==
  { c \in NarrativeCompletions : c.kind = "raise" \/ Strip(c.text) # "" }

ConcurrentInputs ==
  \A r \in Requests :
    /\ user_query[r] \in ConcurrentQueries \cup {None}
    /\ completions[r].intent \in ConcurrentIntentCompletions \cup {NoCompletions.intent}
    /\ completions[r].narrative
         \in ConcurrentNarrativeCompletions \cup {NoCompletions.narrative}

ConcurrentInit ==
  /\ AI_ENABLED \in BOOLEAN
  /\ store \in ConcurrentStores
  /\ IdleRequests
  /\ ImportIdle

\* Any request takes the next step of its handler.
ConcurrentNext == \E r \in Requests : handle_query(r) /\ ConcurrentInputs'

SpecConcurrent == ConcurrentInit /\ [][ConcurrentNext]_vars

(***************************************************************************)
(* A request served to its end                                             *)
(***************************************************************************)

\* The store of the runs to the end: empty, two schools, or one school more
\* than the lookup's cap.
ServedStores == ConcurrentStores \cup {StoreOfSize(FIND_LIMIT + 1)}

\* What the completion service does in the runs to the end: a subset of
\* IntentCompletions and NarrativeCompletions.
ServedInputs ==
  /\ completions[1].intent \in ConcurrentIntentCompletions \cup {NoCompletions.intent}
  /\ completions[1].narrative
       \in ConcurrentNarrativeCompletions \cup {NoCompletions.narrative}

ServedInit ==
  /\ AI_ENABLED \in BOOLEAN
  /\ store \in ServedStores
  /\ IdleRequests
  /\ ImportIdle

ServedNext == handle_query(1) /\ ServedInputs'

\* The steps of the handler once the request is in: each call the handler
\* makes returns or raises, and the handler goes on.
Serve ==
  /\ \/ ExtractWithAI(1)
     \/ ExtractWithoutAI(1)
     \/ LookupSucceeds(1)
     \/ LookupFails(1)
     \/ Narrate(1)
  /\ ServedInputs'

SpecServed == ServedInit /\ [][ServedNext]_vars /\ WF_vars(Serve)

(***************************************************************************)
(* The rule-based parser on its own                                        *)
(***************************************************************************)

\* The phrases a query text is put together from: the terms of indicators
\* outside the deployed registry in either case, near misses of them, and
\* words of the other lexicons.
Phrases ==
  { <<"S","u","s","p","e","n","s","i","o","n">>   \* "Suspension"
  , <<"d","i","s","c","i","p","l","i","n","e">>   \* "discipline"
  , <<"c","o","l","l","e","g","e">>   \* "college"
  , <<"C","a","r","e","e","r">>   \* "Career"
  , <<"g","r","a","d","u","a","t","i","o","n">>   \* "graduation"
  , <<"e","n","g","l","i","s","h"," ","l","e","a","r","n","e","r"," ","p","r","o","g","r","e","s","s">>   \* "english learner progress"
  , <<"E","L","P","I">>   \* "ELPI"
  , <<"e","l","p","a","c">>   \* "elpac"
  , <<"e","n","g","l","i","s","h"," ","l","e","a","r","n","e","r">>   \* "english learner"
  , <<"p","r","o","g","r","e","s","s">>   \* "progress"
  , <<"m","a","t","h">>   \* "math"
  , <<"r","e","d">>   \* "red"
  , <<"s","t","r","u","g","g","l","i","n","g">>   \* "struggling"
  , <<"s","u","n","n","y","v","a","l","e">>   \* "sunnyvale"
  , <<"l","o","n","g","-","t","e","r","m"," ","e","n","g","l","i","s","h"," ","l","e","a","r","n","e","r","s">>   \* "long-term english learners"
  , <<"g","r","a","d","u","a","t","e">>   \* "graduate"
  , <<"b","e","s","t">>   \* "best"
  , <<"G","r","e","e","n">>   \* "Green"
  , <<"O","a","k","l","a","n","d">>   \* "Oakland"
  , <<"h","i","s","p","a","n","i","c">>   \* "hispanic"
  , <<"r","e","a","d","i","n","g">>   \* "reading"
  }

\* The most phrases in one query text.
MaxPhrases == 2

\* The phrases of a list joined by single spaces.
RECURSIVE Join(_)
Join(ps) ==
  IF ps = <<>> THEN <<>>
  ELSE IF Len(ps) = 1 THEN ps[1]
  ELSE ps[1] \o <<" ">> \o Join(Tail(ps))

ParseTexts == {Join(ps) : ps \in ListsUpTo(Phrases, MaxPhrases)}

ParseInit ==
  /\ AI_ENABLED = FALSE
  /\ store = <<>>
  /\ pc = [r \in Requests |-> IF r = 1 THEN "parse" ELSE "idle"]
  /\ \E text \in ParseTexts :
       user_query = [r \in Requests |-> IF r = 1 THEN text ELSE None]
  /\ parsed_query = [r \in Requests |-> <<>>]
  /\ mongo_query = [r \in Requests |-> <<>>]
  /\ results = [r \in Requests |-> <<>>]
  /\ reply = [r \in Requests |-> NoReply]
  /\ calls = [r \in Requests |-> NoCalls]
  /\ completions = [r \in Requests |-> NoCompletions]
  /\ failures = [r \in Requests |-> {}]
  /\ ImportIdle

\* parse_query_with_patterns runs on the text and returns the intent.
ParseWithPatterns(r) ==
  /\ pc[r] = "parse"
  /\ parsed_query' = [parsed_query EXCEPT ![r] = parse_query_with_patterns(user_query[r])]
  /\ calls' = [calls EXCEPT ![r].patterns = @ + 1]
  /\ pc' = [pc EXCEPT ![r] = "parsed"]
  /\ UNCHANGED <<AI_ENABLED, store, user_query, mongo_query, results, reply,
                 completions, failures>>
  /\ UNCHANGED import_vars

ParseNext == ParseWithPatterns(1)

SpecParse == ParseInit /\ [][ParseNext]_vars

(***************************************************************************)
(* The explainer on its own                                                *)
(***************************************************************************)

\* One indicator observation with its year-over-year change, as the import
\* writes it; value and change in tenths.
Observation(indicator, status, value, change) ==
  IF indicator \in {"ela_performance", "math_performance"}
    THEN [status |-> status, change |-> change, points_below_standard |-> value]
    ELSE [status |-> status, change |-> change, rate |-> value]

ExplainIndicators ==
  { "chronic_absenteeism", "ela_performance", "math_performance",
    "suspension_rate", "graduation_rate" }

ExplainStatuses == {Red, Orange, Green, NoData, Unknown}

\* Distances from standard are signed; rates are not.
ExplainValues(indicator) ==
  IF indicator \in {"ela_performance", "math_performance"}
    THEN {-123, 0, 215} ELSE {0, 215}

ExplainChanges == {-20, 0, 15}

\* Schools with one overall observation, with or without an English-learner
\* breakdown next to it; a school with two overall observations; a school
\* with no overall observation.
ExplainSchools ==
  { SchoolDocument(Oakland_Unified, Lincoln_High,
      ("ALL" :> (i :> Observation(i, st, v, ch)))
        @@ (IF el THEN "EL" :> ("math_performance" :>
                                  Observation("math_performance", Red, -400, -20))
                  ELSE <<>>)) :
      <<i, st, v, ch, el>> \in
        { t \in ExplainIndicators \X ExplainStatuses \X {-123, 0, 215}
                  \X ExplainChanges \X BOOLEAN :
            t[3] \in ExplainValues(t[1]) } }
  \cup
  { SchoolDocument(Sunnyvale_Elementary, Bishop_Elementary,
      "ALL" :> (("math_performance" :> Observation("math_performance", Orange, -255, 15))
                @@ ("chronic_absenteeism" :>
                      Observation("chronic_absenteeism", Red, 215, 15)))),
    SchoolDocument(Sunnyvale_Elementary, Lincoln_High,
      "EL" :> ("ela_performance" :> Observation("ela_performance", Red, -123, 0))) }

\* The longest result list drawn from the schools of a multi-school answer.
MaxRecords == 2

SummarySchools ==
  { SchoolDocument(Sunnyvale_Elementary, Bishop_Elementary,
      "ALL" :> (("math_performance" :> Observation("math_performance", Orange, -255, 15))
                @@ ("chronic_absenteeism" :>
                      Observation("chronic_absenteeism", Red, 215, 15)))),
    SchoolDocument(Oakland_Unified, Lincoln_High,
      "ALL" :> ("math_performance" :> Observation("math_performance", Green, 215, 0))),
    SchoolDocument(Oakland_Unified, Bishop_Elementary,
      "ALL" :> ("math_performance" :> Observation("math_performance", Red, -123, -20))) }

\* The result lists handed to the explainer: none, one school, several
\* schools, and one school more than the analysis takes.
ExplainResults ==
  { <<school>> : school \in ExplainSchools }
  \cup ListsUpTo(SummarySchools, MaxRecords)
  \cup { [k \in 1..(AI_RESULT_LIMIT + 1) |->
            SchoolDocument(Oakland_Unified, Lincoln_High,
              "ALL" :> ("math_performance" :>
                          Observation("math_performance", Red, -123, -20)))] }

\* The intents handed to the explainer.
ExplainIntents ==
  { [ district_name |-> None, school_name |-> None, colors |-> <<>>,
      indicators |-> <<>>, student_groups |-> groups,
      data_availability |-> availability, explanation |-> Explanation_patterns ] :
      groups \in {<<>>, <<"EL">>, <<"ALL", "EL">>},
      availability \in {"available", "not_available"} }

ExplainInit ==
  /\ AI_ENABLED \in BOOLEAN
  /\ store = <<>>
  /\ pc = [r \in Requests |-> IF r = 1 THEN "explain" ELSE "idle"]
  /\ user_query = [r \in Requests |-> None]
  /\ \E intent \in ExplainIntents :
       parsed_query = [r \in Requests |-> IF r = 1 THEN intent ELSE <<>>]
  /\ mongo_query = [r \in Requests |-> <<>>]
  /\ \E found \in ExplainResults :
       results = [r \in Requests |-> IF r = 1 THEN found ELSE <<>>]
  /\ reply = [r \in Requests |-> NoReply]
  /\ calls = [r \in Requests |-> NoCalls]
  /\ completions = [r \in Requests |-> NoCompletions]
  /\ failures = [r \in Requests |-> {}]
  /\ ImportIdle

\* generate_intelligent_response runs on the given result list and intent,
\* up to its return or up to the call of generate_ai_analysis.
Explain(r) ==
  /\ pc[r] = "explain"
  /\ IF ReachesAnalysis(results[r], parsed_query[r], AI_ENABLED)
       THEN /\ pc' = [pc EXCEPT ![r] = "narrate"]
            /\ UNCHANGED reply
       ELSE /\ pc' = [pc EXCEPT ![r] = "done"]
            /\ reply' = [reply EXCEPT ![r] =
                 SuccessReply(
                   generate_intelligent_response(results[r], parsed_query[r],
                                                 AI_ENABLED, Raises),
                   results[r], parsed_query[r], mongo_query[r])]
  /\ calls' = [calls EXCEPT ![r].explainer = @ + 1]
  /\ UNCHANGED <<AI_ENABLED, store, user_query, parsed_query, mongo_query, results,
                 completions, failures>>
  /\ UNCHANGED import_vars

ExplainNext == Explain(1) \/ Narrate(1)

SpecExplain == ExplainInit /\ [][ExplainNext]_vars

(***************************************************************************)
(* The import                                                              *)
(***************************************************************************)

\* get_color_status: the status of a colour code.
get_color_status(color_code) ==
  IF color_code = "1" THEN Red
  ELSE IF color_code = "2" THEN Orange
  ELSE IF color_code = "3" THEN Yellow
  ELSE IF color_code = "4" THEN Green
  ELSE IF color_code = "5" THEN Blue
  ELSE IF color_code = "0" THEN NoData
  ELSE Unknown

\* The cds codes of state-level rows, which the import skips.
StateLevel == {"00000000000000", "0"}

\* The rows of the source files: the school's code, the student group column
\* ("" for an empty or missing cell), the colour code ("" likewise, "7" for
\* a code outside the scale), the current status and the change in tenths.
ImportRows ==
  [ cds           : {"01611190130229", "43696900000000", "0"},
    stugroupshort : {"ALL", "EL", ""},
    color         : {"1", "4", "0", "", "7"},
    currstatus    : {215},
    change        : {-20} ]

\* The files the rows come from, as positions in csv_files.
ImportFiles == {1, 3, Len(IndicatorOrder)}

\* The most rows in one run of the import.
MaxRows == 2

\* The names the rows of a school carry.
DistrictOf(cds) ==
  IF cds = "01611190130229" THEN Oakland_Unified ELSE Sunnyvale_Elementary

SchoolOf(cds) ==
  IF cds = "01611190130229" THEN Lincoln_High ELSE Bishop_Elementary

\* The student group a row is filed under.
StudentGroupOf(row, indicator_name) ==
  IF row.stugroupshort = "" \/ row.stugroupshort = "ALL"
    THEN (IF indicator_name = "english_learner_progress" THEN "EL" ELSE "ALL")
    ELSE row.stugroupshort

\* student_groups[student_group][indicator_name] = indicator_data
SetIndicator(student_groups, student_group, indicator_name, indicator_data) ==
  LET old == IF student_group \in DOMAIN student_groups
               THEN student_groups[student_group] ELSE <<>>
  IN  (student_group :> ((indicator_name :> indicator_data) @@ old)) @@ student_groups

\* The school of the code among the schools seen so far, or 0.
SchoolIndex(cds) ==
  IF \E k \in DOMAIN schools : schools[k].cds_code = cds
    THEN CHOOSE k \in DOMAIN schools : schools[k].cds_code = cds
    ELSE 0

ImportInit ==
  /\ AI_ENABLED = FALSE
  /\ store = <<>>
  /\ IdleRequests
  /\ schools = <<>>
  /\ documents = <<>>
  /\ import_pc = [phase |-> "rows", file |-> 1, rows |-> 0]

\* The loop over the files and their rows processes one more row: a row of
\* the current file or of a later one.
ProcessRow ==
  /\ import_pc.phase = "rows"
  /\ import_pc.rows < MaxRows
  /\ \E file \in ImportFiles, row \in ImportRows :
       /\ file >= import_pc.file
       /\ import_pc' = [import_pc EXCEPT !.file = file, !.rows = @ + 1]
       /\ IF row.cds \in StateLevel
            THEN UNCHANGED schools
            ELSE LET indicator_name == IndicatorOrder[file]
                     student_group  == StudentGroupOf(row, indicator_name)
                     indicator_data == Observation(indicator_name,
                                                   get_color_status(row.color),
                                                   row.currstatus, row.change)
                     known          == IF SchoolIndex(row.cds) = 0
                                         THEN Append(schools,
                                                [ cds_code       |-> row.cds,
                                                  district_name  |-> DistrictOf(row.cds),
                                                  school_name    |-> SchoolOf(row.cds),
                                                  student_groups |-> <<>> ])
                                         ELSE schools
                     k              == CHOOSE j \in DOMAIN known :
                                         known[j].cds_code = row.cds
                 IN  schools' = [known EXCEPT ![k].student_groups =
                                   SetIndicator(@, student_group, indicator_name,
                                                indicator_data)]
  /\ UNCHANGED documents
  /\ UNCHANGED <<AI_ENABLED, store, pc, user_query, parsed_query, mongo_query,
                 results, reply, calls, completions, failures>>

\* The rows are used up: the schools become documents.
CreateDocuments ==
  /\ import_pc.phase = "rows"
  /\ documents' = [k \in DOMAIN schools |->
                     SchoolDocument(schools[k].district_name, schools[k].school_name,
                                    schools[k].student_groups)]
  /\ import_pc' = [import_pc EXCEPT !.phase = "done"]
  /\ UNCHANGED schools
  /\ UNCHANGED <<AI_ENABLED, store, pc, user_query, parsed_query, mongo_query,
                 results, reply, calls, completions, failures>>

create_school_documents_complete == ProcessRow \/ CreateDocuments

SpecImport == ImportInit /\ [][create_school_documents_complete]_vars

(***************************************************************************)
(* Properties of the filter compiler                                       *)
(***************************************************************************)

Range(s) == {s[k] : k \in DOMAIN s}

\* The requested indicator/group paths of an intent: groups x indicators,
\* the indicators defaulting to the registry, the groups to the overall scope.
RequestedPaths(intent) ==
  LET I == IF intent.indicators = <<>> THEN Range(RegistryIndicators)
                                       ELSE Range(intent.indicators)
  IN  IF intent.student_groups = <<>>
        THEN {<<"dashboard_indicators", i, "status">> : i \in I}
        ELSE {<<"student_groups", g, i, "status">> :
                g \in Range(intent.student_groups), i \in I}

\* The document holds, at the requested path p, a status among colors.
StatusAmong(doc, p, colors) ==
  IF p[1] = "dashboard_indicators"
    THEN /\ p[2] \in DOMAIN doc.dashboard_indicators
         /\ doc.dashboard_indicators[p[2]].status \in Range(colors)
    ELSE /\ p[2] \in DOMAIN doc.student_groups
         /\ p[3] \in DOMAIN doc.student_groups[p[2]]
         /\ doc.student_groups[p[2]][p[3]].status \in Range(colors)

Compiled(r) == pc[r] \in {"probe", "probed"}

\* C6: for an intent with non-empty colors, the field paths of the compiled
\* $or conditions are exactly groups x indicators (student_groups.<g>.<i>.status,
\* or dashboard_indicators.<i>.status without a group; the registry indicators
\* when the intent names none), each condition a $in over the intent's colors.
C6_PathsAreTheCartesianProduct ==
  \A r \in Requests :
    (Compiled(r) /\ parsed_query[r].colors # <<>>) =>
       /\ "$or" \in DOMAIN mongo_query[r]
       /\ {c.path : c \in Range(mongo_query[r]["$or"])} = RequestedPaths(parsed_query[r])
       /\ \A c \in Range(mongo_query[r]["$or"]) :
             c.op = "$in" /\ c.arg = parsed_query[r].colors

C6_Witness ==
  /\ pc[1] = "probe"
  /\ parsed_query[1].colors = <<Red>>
  /\ parsed_query[1].student_groups = <<"EL", "HI">>
  /\ parsed_query[1].indicators = <<"math_performance", "chronic_absenteeism">>
  /\ Len(mongo_query[1]["$or"]) = 4

\* C7: for an intent with empty colors and non-empty indicators the compiled
\* filter is an existence check over the requested paths, and a document it
\* accepts has one of the requested indicators.
C7_ExistenceCheckWithoutColors ==
  \A r \in Requests :
    (pc[r] = "probed" /\ parsed_query[r].colors = <<>>
                      /\ parsed_query[r].indicators # <<>>) =>
       /\ "$or" \in DOMAIN mongo_query[r]
       /\ \A c \in Range(mongo_query[r]["$or"]) : c.op = "$exists"
       /\ results[r] # <<>> =>
            \E p \in RequestedPaths(parsed_query[r]) :
               Resolve(store[1], SubSeq(p, 1, Len(p) - 1)) # <<>>

\* C8: a document satisfies the filter compiled from an intent with colors
\* exactly when its district_name holds the district term (if any), its
\* school_name holds the school term (if any), letter case ignored, and at
\* least one requested path has a status among the colors.
C8_MatchIsDistrictAndSchoolAndAnyColor ==
  \A r \in Requests :
    (pc[r] = "probed" /\ parsed_query[r].colors # <<>>) =>
       LET intent == parsed_query[r]
           doc    == store[1]
       IN  (results[r] = <<doc>>) <=>
             /\ intent.district_name # None =>
                  Contains(Lower(doc.district_name), Lower(intent.district_name))
             /\ intent.school_name # None =>
                  Contains(Lower(doc.school_name), Lower(intent.school_name))
             /\ \E p \in RequestedPaths(intent) : StatusAmong(doc, p, intent.colors)

\* District 'sunnyvale', colors {Red}, indicators {math_performance}: the
\* Sunnyvale Elementary record whose overall math status is Red is accepted.
C8_Witness ==
  /\ pc[1] = "probed"
  /\ parsed_query[1].district_name = Lower(SubSeq(Sunnyvale_Elementary, 1, 9))
  /\ parsed_query[1].colors = <<Red>>
  /\ parsed_query[1].indicators = <<"math_performance">>
  /\ parsed_query[1].student_groups = <<>>
  /\ store[1].district_name = Sunnyvale_Elementary
  /\ "math_performance" \in DOMAIN store[1].dashboard_indicators
  /\ store[1].dashboard_indicators["math_performance"].status = Red
  /\ results[1] = store

\* C9: the filter compiled from an intent with data_availability =
\* not_available accepts no document.
C9_NotAvailableNeverMatches ==
  \A r \in Requests :
    (pc[r] = "probed" /\ parsed_query[r].data_availability = "not_available") =>
       results[r] = <<>>

(***************************************************************************)
(* Properties of the /query handler                                        *)
(***************************************************************************)

\* The request carried a query text and its intent has been extracted.
Extracted(r) == pc[r] \in {"lookup", "narrate", "done"} /\ user_query[r] # None

\* The reply holds an opening brace with a closing brace after it.
HasBraceSpan(text) ==
  \E i, j \in 1..Len(text) : i < j /\ text[i] = LBrace /\ text[j] = RBrace

\* The span from the first opening brace to the last closing brace.
GreedySpan(text) ==
  LET i == CHOOSE k \in 1..Len(text) :
             text[k] = LBrace /\ \A m \in 1..(k - 1) : text[m] # LBrace
      j == CHOOSE k \in 1..Len(text) :
             text[k] = RBrace /\ \A m \in (k + 1)..Len(text) : text[m] # RBrace
  IN  SubSeq(text, i, j)

\* The span is the text of one JSON object.
IsJsonObject(span) ==
  \/ span = <<LBrace, RBrace>>
  \/ \E d \in ReplyIntents : span = <<LBrace, Members(d), RBrace>>

\* The AI strategy produced nothing: AI is disabled, the completion raised,
\* the reply has no {...} span, or the span is not valid JSON.
ExtractionFailed(r) ==
  LET c == completions[r].intent
  IN  \/ ~AI_ENABLED
      \/ c.kind = "raise"
      \/ c.kind = "text" /\ ~HasBraceSpan(c.text)
      \/ c.kind = "text" /\ HasBraceSpan(c.text) /\ ~IsJsonObject(GreedySpan(c.text))

\* The narrative call failed: building the prompt or the completion raised,
\* there was no response object, or the text was empty after strip().
NarrativeFailed(r) ==
  LET c == completions[r].narrative
  IN  \/ c.kind \in {"prompt_error", "raise", "none"}
      \/ c.kind = "text" /\ c.text \in {"", " "}

\* C1: a request whose intent has data_availability = not_available ends
\* with the not-available narrative and never invokes the store lookup.
C1_NotAvailableNeverTouchesStore ==
  \A r \in Requests :
    (pc[r] = "done" /\ IsNotAvailable(parsed_query[r])) =>
       /\ reply[r].response = NotAvailableMessage(parsed_query[r])
       /\ calls[r].find = 0

\* C2: intent extraction yields an intent for every query text and leaves no
\* error behind; when AI is disabled, the completion raises, the reply has no
\* {...} span or the span is not valid JSON, the intent is exactly what
\* parse_query_with_patterns returns for the same text.
C2_ExtractionFallsBackToPatterns ==
  \A r \in Requests :
    Extracted(r) =>
       /\ DOMAIN parsed_query[r] # {}
       /\ pc[r] = "lookup" => reply[r] = NoReply
       /\ ExtractionFailed(r) =>
            parsed_query[r] = parse_query_with_patterns(user_query[r])

\* The reply was an object followed by prose with a stray closing brace, and
\* the intent is the rule-based one.
C2_Witness ==
  /\ pc[1] = "lookup"
  /\ AI_ENABLED
  /\ completions[1].intent.kind = "text"
  /\ Len(completions[1].intent.text) = 5
  /\ completions[1].intent.text[5] = RBrace
  /\ user_query[1] # <<>>
  /\ parsed_query[1] = parse_query_with_patterns(user_query[1])

\* C3: a request whose store lookup raised ends with the error response
\* (500, error narrative, no schools) without the explainer having run; a
\* request whose lookup did not raise ends with a success response whatever
\* the AI extraction and the AI narrative did.
C3_OnlyStoreFailureIsSurfaced ==
  \A r \in Requests :
    (pc[r] = "done" /\ user_query[r] # None) =>
       /\ "store" \in failures[r] =>
            /\ reply[r].status = 500
            /\ reply[r].response.kind = "error"
            /\ reply[r].schools = <<>>
            /\ calls[r].explainer = 0
       /\ "store" \notin failures[r] =>
            /\ reply[r].status = 200
            /\ reply[r].response.kind # "error"
            /\ calls[r].explainer = 1

C3_Witness ==
  /\ pc[1] = "done"
  /\ "store" \in failures[1]
  /\ ExtractionFailed(1) /\ AI_ENABLED
  /\ reply[1].status = 500

\* C4: after a successful lookup, a failed narrative call is not surfaced:
\* the response is a success whose narrative is exactly the output of
\* generate_template_response for the same results and intent.
C4_NarrativeFailureFallsBackToTemplate ==
  \A r \in Requests :
    (pc[r] = "done" /\ NarrativeFailed(r)) =>
       /\ reply[r].status = 200
       /\ reply[r].schools = results[r]
       /\ reply[r].response = generate_template_response(results[r], parsed_query[r])

C4_Witness ==
  /\ pc[1] = "done"
  /\ completions[1].narrative.kind = "text"
  /\ completions[1].narrative.text = " "
  /\ Len(results[1]) = 1
  /\ reply[1].response.kind = "breakdown"

\* C5: a request invokes the completion service at most once for the intent
\* and at most once for the narrative; after a failed invocation the stage
\* has gone to its fallback (the rule-based intent, the template narrative).
C5_NoRetryOfTheCompletion ==
  \A r \in Requests :
    /\ calls[r].completion_intent <= 1
    /\ calls[r].completion_narrative <= 1
    /\ (pc[r] # "extract" /\ "extraction" \in failures[r]) =>
         /\ calls[r].patterns = 1
         /\ parsed_query[r] = parse_query_with_patterns(user_query[r])
    /\ (pc[r] = "done" /\ "narrative" \in failures[r]) =>
         reply[r].response = generate_template_response(results[r], parsed_query[r])

C5_Witness ==
  /\ pc[1] = "done"
  /\ {"extraction", "narrative"} \subseteq failures[1]
  /\ completions[1].intent.kind = "raise"
  /\ completions[1].narrative.kind = "raise"
  /\ calls[1].completion_intent = 1
  /\ calls[1].completion_narrative = 1

\* C10: whenever the intent has data_availability = not_available, the
\* explainer returns the not-available message, whatever the result list
\* holds, and never gets as far as the narrative completion.
C10_NotAvailableMessageForEveryResultList ==
  \A r \in Requests :
    /\ (pc[r] = "done" /\ calls[r].explainer = 1 /\ IsNotAvailable(parsed_query[r])) =>
         /\ reply[r].response = NotAvailableMessage(parsed_query[r])
         /\ calls[r].completion_narrative = 0
    /\ pc[r] = "narrate" => ~IsNotAvailable(parsed_query[r])

\* AI is enabled and the lookup returned one record, for which the narrative
\* completion would otherwise be asked.
C10_Witness ==
  /\ pc[1] = "done"
  /\ AI_ENABLED
  /\ IsNotAvailable(parsed_query[1])
  /\ Len(results[1]) = 1
  /\ reply[1].response.kind = "not_available"
\* The object a JSON span stands for.
ObjectOf(span) == IF span = <<LBrace, RBrace>> THEN <<>> ELSE span[2].v

\* C20: with the AI enabled, every reply of the completion whose brace span
\* is one JSON object (the empty object and objects with missing fields
\* included) makes that object, unchanged, the intent, and
\* parse_query_with_patterns is not run.
C20_EveryParsedObjectIsTheIntent ==
  \A r \in Requests :
    LET c == completions[r].intent
    IN  ( /\ Extracted(r) /\ AI_ENABLED /\ c.kind = "text"
          /\ HasBraceSpan(c.text) /\ IsJsonObject(GreedySpan(c.text)) )
          => /\ parsed_query[r] = ObjectOf(GreedySpan(c.text))
             /\ calls[r].patterns = 0

\* The positions of the reply at which one JSON object with members stands
\* between its braces.
ObjectsIn(text) ==
  { k \in 2..(Len(text) - 1) :
      text[k].t = "members" /\ text[k - 1] = LBrace /\ text[k + 1] = RBrace }

\* The reply is prose, one JSON object and more prose; the prose may hold
\* brace characters.
ProseAroundOneObject(text) ==
  /\ Cardinality(ObjectsIn(text)) = 1
  /\ \A k \in 1..Len(text) : text[k].t = "members" => k \in ObjectsIn(text)

TheObjectIn(text) == text[CHOOSE k \in ObjectsIn(text) : TRUE].v

\* No opening brace stands in the prose before the object and no closing
\* brace in the prose after it.
NoBraceOutward(text) ==
  LET k == CHOOSE j \in ObjectsIn(text) : TRUE
  IN  /\ \A m \in 1..(k - 2) : text[m] # LBrace
      /\ \A m \in (k + 2)..Len(text) : text[m] # RBrace

C26_LearnerProgressTargetsTheELGroup ==
  \A r \in Requests :
    ( /\ Compiled(r)
      /\ "english_learner_progress" \in Range(parsed_query[r].indicators)
      /\ parsed_query[r].student_groups = <<>>
      /\ "$or" \in DOMAIN mongo_query[r] )
      => \A c \in Range(mongo_query[r]["$or"]) :
           "english_learner_progress" \in Range(c.path)
             => c.path = <<"student_groups", "EL", "english_learner_progress", "status">>

\* A request that is done has a response: the success response, with the
\* narrative and the first FIND_LIMIT at most of the store's matching
\* documents in the store's order, or the error response.
DoneHasAResponse ==
  \A r \in Requests :
    pc[r] = "done" =>
      \/ /\ reply[r].status = 500
         /\ reply[r].response.kind = "error"
      \/ /\ reply[r].status = 200
         /\ reply[r].response.kind \in
              {"not_available", "no_match", "ai", "breakdown", "summary"}
         /\ Len(reply[r].schools) <= FIND_LIMIT
         /\ LET matching == SelectSeq(store, LAMBDA d : Matches(d, reply[r].query_used))
            IN  reply[r].schools =
                  SubSeq(matching, 1, IF Len(matching) < FIND_LIMIT
                                        THEN Len(matching) ELSE FIND_LIMIT)

\* A request has no response before it is done.
NoResponseBeforeDone ==
  \A r \in Requests : pc[r] # "done" => reply[r] = NoReply

\* A response, once given, stays as it is.
ResponseGivenOnce ==
  \A r \in Requests : reply[r] # NoReply => reply'[r] = reply[r]

\* C29: every request that came in ends with exactly one response, whichever
\* of the intent completion, the narrative completion and the store lookup
\* fails: the success response with at most FIND_LIMIT matched records in
\* the store's order, or the error response.
C29_EveryRequestEndsWithOneResponse ==
  /\ [](DoneHasAResponse /\ NoResponseBeforeDone)
  /\ [][ResponseGivenOnce]_vars
  /\ \A r \in {1} : (pc[r] # "idle") ~> (pc[r] = "done")

\* The intent completion and the narrative completion both failed and the
\* request ended with the success response and the schools found.
C29_Witness ==
  \E r \in Requests :
    /\ pc[r] = "done"
    /\ failures[r] = {"extraction", "narrative"}
    /\ reply[r].status = 200
    /\ reply[r].schools # <<>>

(***************************************************************************)
(* Properties of the explainer                                             *)
(***************************************************************************)

\* The request was answered by the explainer.
Explained(r) ==
  pc[r] = "done" /\ reply[r].status = 200 /\ calls[r].explainer = 1

\* C11 as stated: an empty result list gets the no-matching-schools message
\* for every intent, including every value of data_availability.
C11_NoMatchForEveryIntent ==
  \A r \in Requests :
    Explained(r) /\ results[r] = <<>> => reply[r].response = NoMatchMessage

\* C11, amended: an empty result list gets the no-matching-schools message
\* for every intent that is not marked not_available, whatever its district,
\* school, colours, indicators and student groups.
C11_NoMatchForEveryAvailableIntent ==
  \A r \in Requests :
    Explained(r) /\ results[r] = <<>> /\ ~IsNotAvailable(parsed_query[r])
      => reply[r].response = NoMatchMessage

\* A non-empty store, an intent with colours, nothing found, and the
\* no-matching-schools message as the answer.
C11_Witness ==
  \E r \in Requests :
    /\ Explained(r) /\ results[r] = <<>> /\ store # <<>>
    /\ HasList(parsed_query[r], "colors")
    /\ ~IsNotAvailable(parsed_query[r])
    /\ reply[r].response = NoMatchMessage

\* The single school of a one-record answer rendered by the template.
BreakdownOf(r) ==
  /\ Explained(r)
  /\ Len(results[r]) = 1
  /\ reply[r].response.kind = "breakdown"

FiveLevels == {Red, Orange, Yellow, Green, Blue}

\* What a change means for an indicator: a rise of chronic absenteeism or of
\* the suspension rate is a worsening, a rise of any other indicator an
\* improvement, and the reverse for a fall.
DirectionOf(indicator, change) ==
  IF indicator \in {"chronic_absenteeism", "suspension_rate"}
    THEN (IF change > 0 THEN "worsening" ELSE "improvement")
    ELSE (IF change > 0 THEN "improvement" ELSE "worsening")

\* C12: in the single-record breakdown every overall indicator that changed
\* has a line whose change is phrased by the indicator and the sign of the
\* change alone: a positive change of chronic_absenteeism or suspension_rate
\* as a worsening, of graduation_rate, college_career, ela_performance or
\* math_performance as an improvement.
C12_ChangePhrasedByIndicatorAndSign ==
  \A r \in Requests :
    BreakdownOf(r) =>
      LET overall == results[r][1].dashboard_indicators
      IN  \A i \in DOMAIN overall :
            overall[i].status \in FiveLevels /\ overall[i].change # 0
              => \E k \in DOMAIN reply[r].response.lines :
                   LET line == reply[r].response.lines[k]
                   IN  /\ line.indicator = i
                       /\ "direction" \in DOMAIN line
                       /\ line.direction = DirectionOf(i, overall[i].change)

\* The line shows the non-negative number n (in tenths) to one decimal.
Shows(line, n) ==
  /\ ~line.value.minus
  /\ line.value.whole * 10 + line.value.tenth = n

\* C13: in the single-record breakdown every ela_performance and
\* math_performance line shows a value v >= 0 as "v points above standard"
\* and a value v < 0 as "|v| points below standard", whatever the status and
\* the change of the observation; zero counts as above. Every such
\* observation whose status is not "No Data" has exactly one line.
C13_SignOfDistanceDecidesThePhrase ==
  \A r \in Requests :
    BreakdownOf(r) =>
      LET overall == results[r][1].dashboard_indicators
          lines   == reply[r].response.lines
      IN  /\ \A k \in DOMAIN lines :
               lines[k].indicator \in {"ela_performance", "math_performance"} =>
                 LET v == overall[lines[k].indicator].points_below_standard
                 IN  /\ lines[k].status = overall[lines[k].indicator].status
                     /\ v >= 0 => /\ lines[k].phrase = "points above standard"
                                  /\ Shows(lines[k], v)
                     /\ v < 0  => /\ lines[k].phrase = "points below standard"
                                  /\ Shows(lines[k], -v)
          /\ \A i \in {"ela_performance", "math_performance"} \cap DOMAIN overall :
               overall[i].status # NoData
                 => Cardinality({k \in DOMAIN lines : lines[k].indicator = i}) = 1

\* A Green ELA observation that rose and lies below standard is shown as
\* points below standard.
C13_Witness ==
  \E r \in Requests :
    /\ BreakdownOf(r)
    /\ LET overall == results[r][1].dashboard_indicators
       IN  /\ "ela_performance" \in DOMAIN overall
           /\ overall["ela_performance"].status = Green
           /\ overall["ela_performance"].change > 0
           /\ overall["ela_performance"].points_below_standard < 0
    /\ \E k \in DOMAIN reply[r].response.lines :
         /\ reply[r].response.lines[k].indicator = "ela_performance"
         /\ reply[r].response.lines[k].phrase = "points below standard"

\* The student groups a breakdown is asked for: the intent's, or the
\* overall one.
RequestedGroups(intent) ==
  IF HasList(intent, "student_groups") THEN intent.student_groups ELSE <<"ALL">>

\* C14: for a result list of exactly one record and an intent that is not
\* marked not_available, the output is the per-indicator breakdown with one
\* section per student group of the intent, or the one overall section if the
\* intent names no group, whether or not the AI is enabled.
C14_OneRecordGetsTheBreakdownPerGroup ==
  \A r \in Requests :
    Explained(r) /\ Len(results[r]) = 1 /\ ~IsNotAvailable(parsed_query[r])
      => /\ reply[r].response.kind = "breakdown"
         /\ IF RequestedGroups(parsed_query[r]) = <<"ALL">>
              THEN results[r][1].dashboard_indicators # <<>>
                     => reply[r].response.overall
              ELSE /\ "sections" \in DOMAIN reply[r].response
                   /\ reply[r].response.sections = RequestedGroups(parsed_query[r])

\* The records of the list whose overall observation of the indicator is
\* Red or Orange.
NeedingAttention(found, indicator) ==
  { k \in 1..Len(found) :
      /\ indicator \in DOMAIN found[k].dashboard_indicators
      /\ found[k].dashboard_indicators[indicator].status \in {Red, Orange} }

\* Per indicator with at least one Red or Orange observation, how many
\* records have one.
AttentionCounts(found) ==
  [ i \in {j \in Range(IndicatorOrder) : NeedingAttention(found, j) # {}}
      |-> Cardinality(NeedingAttention(found, i)) ]

\* C17: when the template answers for a list of several records, it counts
\* per indicator the records whose status is Red or Orange and renders them
\* as the areas needing attention; when no record has a Red or Orange
\* indicator it renders the count per status level instead.
C17_SeveralRecordsAreAggregated ==
  \A r \in Requests :
    Explained(r) /\ Len(results[r]) > 1 /\ reply[r].response.kind = "summary"
      => IF AttentionCounts(results[r]) # <<>>
           THEN /\ "attention" \in DOMAIN reply[r].response
                /\ reply[r].response.attention = AttentionCounts(results[r])
           ELSE "distribution" \in DOMAIN reply[r].response

\* C18: in the single-record breakdown an indicator whose status is missing,
\* "Unknown" or "No Data" has no line; every line shows an indicator with one
\* of the five status levels.
C18_OnlyKnownStatusesAreRendered ==
  \A r \in Requests :
    BreakdownOf(r) =>
      LET overall == results[r][1].dashboard_indicators
          lines   == reply[r].response.lines
      IN  \A k \in DOMAIN lines :
            /\ lines[k].status \in FiveLevels
            /\ "status" \in DOMAIN overall[lines[k].indicator]
            /\ overall[lines[k].indicator].status \in FiveLevels

\* The completion capability is invoked for a narrative only with the AI
\* enabled, an intent that is not marked not_available and a result list of
\* one to AI_RESULT_LIMIT records.
NarrativeAskedOnlyForSmallLists ==
  \A r \in Requests :
    calls[r].completion_narrative > 0 =>
      /\ AI_ENABLED
      /\ ~IsNotAvailable(parsed_query[r])
      /\ Len(results[r]) \in 1..AI_RESULT_LIMIT

\* C19 as stated: the completion capability is invoked only with the AI
\* enabled, an available intent and one to ten records; for every result
\* list of more than ten records it is not invoked and the output is
\* generate_template_response's.
C19_LongListsGetTheTemplate ==
  /\ NarrativeAskedOnlyForSmallLists
  /\ \A r \in Requests :
       Explained(r) /\ Len(results[r]) > AI_RESULT_LIMIT
         => /\ calls[r].completion_narrative = 0
            /\ reply[r].response =
                 generate_template_response(results[r], parsed_query[r])

\* C19, amended: the completion capability is invoked only with the AI
\* enabled, an available intent and one to ten records; for a result list
\* of more than ten records and an intent that is not marked not_available
\* it is not invoked and the output is generate_template_response's.
C19_LongListsOfAvailableIntentsGetTheTemplate ==
  /\ NarrativeAskedOnlyForSmallLists
  /\ \A r \in Requests :
       ( /\ Explained(r) /\ Len(results[r]) > AI_RESULT_LIMIT
         /\ ~IsNotAvailable(parsed_query[r]) )
         => /\ calls[r].completion_narrative = 0
            /\ reply[r].response =
                 generate_template_response(results[r], parsed_query[r])

\* With the AI enabled, eleven records of an available intent are answered
\* by the template without a call of the completion capability.
C19_Witness ==
  \E r \in Requests :
    /\ Explained(r) /\ AI_ENABLED
    /\ ~IsNotAvailable(parsed_query[r])
    /\ Len(results[r]) = AI_RESULT_LIMIT + 1
    /\ calls[r].completion_narrative = 0
    /\ reply[r].response = [kind |-> "summary", found |-> AI_RESULT_LIMIT + 1]

(***************************************************************************)
(* Properties of the rule-based parser                                     *)
(***************************************************************************)

\* The keywords of the indicators outside the three-indicator registry.
UnavailableKeywords ==
  { <<"s","u","s","p","e","n","s","i","o","n">>   \* "suspension"
  , <<"d","i","s","c","i","p","l","i","n","e">>   \* "discipline"
  , <<"c","o","l","l","e","g","e">>   \* "college"
  , <<"c","a","r","e","e","r">>   \* "career"
  , <<"g","r","a","d","u","a","t","i","o","n">>   \* "graduation"
  , <<"e","n","g","l","i","s","h"," ","l","e","a","r","n","e","r"," ","p","r","o","g","r","e","s","s">>   \* "english learner progress"
  , <<"e","l","p","i">>   \* "elpi"
  , <<"e","l","p","a","c">>   \* "elpac"
  }

\* The keyword stands in the text at position i, letter case aside.
StandsAt(text, kw, i) ==
  /\ i + Len(kw) - 1 <= Len(text)
  /\ \A k \in 1..Len(kw) : LowerChar(text[i + k - 1]) = kw[k]

MentionsUnavailable(text) ==
  \E kw \in UnavailableKeywords : \E i \in 1..Len(text) : StandsAt(text, kw, i)

IntentFields ==
  { "district_name", "school_name", "colors", "indicators", "student_groups",
    "data_availability", "explanation" }

\* C15: parse_query_with_patterns returns an intent for every text; the
\* intent is marked not_available, with the explanation that lists the
\* available indicators, exactly when the text holds one of the keywords
\* suspension, discipline, college, career, graduation, english learner
\* progress, elpi, elpac (in either letter case), and available otherwise.
C15_NotAvailableIffUnavailableKeyword ==
  \A r \in Requests :
    pc[r] = "parsed" =>
      /\ DOMAIN parsed_query[r] = IntentFields
      /\ IF MentionsUnavailable(user_query[r])
           THEN /\ parsed_query[r].data_availability = "not_available"
                /\ parsed_query[r].explanation = Explanation_unavailable
           ELSE /\ parsed_query[r].data_availability = "available"
                /\ parsed_query[r].explanation # Explanation_unavailable

\* A text that holds a keyword in upper case next to an available
\* indicator's word is marked not_available.
C15_Witness ==
  \E r \in Requests :
    /\ pc[r] = "parsed"
    /\ MentionsUnavailable(user_query[r])
    /\ ~MentionsUnavailable(SelectSeq(user_query[r], LAMBDA c : c = LowerChar(c)))
    /\ parsed_query[r].indicators = <<"math_performance">>
    /\ parsed_query[r].data_availability = "not_available"

(***************************************************************************)
(* Properties of requests served at the same time                          *)
(***************************************************************************)

\* The response the request gets when it is served alone: the handler's
\* stages applied to the request's own text and to what the completion
\* service and the store did for it.
AloneReply(r) ==
  IF "request" \in failures[r] THEN ErrorReply("KeyError")
  ELSE IF "store" \in failures[r] THEN ErrorReply("store lookup failed")
  ELSE LET intent == parse_query_with_real_ai(user_query[r], AI_ENABLED,
                                              completions[r].intent)
           found  == Find(store, build_mongodb_query(intent))
       IN  SuccessReply(
             generate_intelligent_response(found, intent, AI_ENABLED,
                                           completions[r].narrative),
             found, intent, build_mongodb_query(intent))

RepliesAsIfAlone ==
  \A r \in Requests : pc[r] = "done" => reply[r] = AloneReply(r)

\* A request asks the completion service for the intent exactly when the AI
\* is enabled, whatever happened to the other requests.
AITriedIffEnabled ==
  \A r \in Requests :
    pc[r] \in {"lookup", "narrate"} \/ (pc[r] = "done" /\ "request" \notin failures[r])
      => (calls[r].completion_intent = 1 <=> AI_ENABLED)

\* The request's own variables.
Own(r) ==
  << pc[r], user_query[r], parsed_query[r], mongo_query[r], results[r], reply[r],
     calls[r], completions[r], failures[r] >>

\* A step serves one request and leaves the others' variables alone.
OneRequestSteps ==
  \E r \in Requests : \A other \in Requests \ {r} : Own(other)' = Own(other)

SharedStateKept == AI_ENABLED' = AI_ENABLED /\ store' = store

\* C16: with requests served at the same time, each request's response is
\* the one it would get alone, no step writes the shared state (the AI flag,
\* the store) or another request's variables, and a request tries the AI
\* exactly when it is enabled, also after an AI failure in another request.
C16_RequestsDoNotInterfere ==
  /\ [](RepliesAsIfAlone /\ AITriedIffEnabled)
  /\ [][SharedStateKept /\ OneRequestSteps]_vars

\* One request's intent completion failed; another request, served at the
\* same time, asked the completion service all the same and got its intent
\* from it.
C16_Witness ==
  \E r, other \in Requests :
    /\ r # other
    /\ pc[r] = "done" /\ pc[other] = "done"
    /\ "extraction" \in failures[r]
    /\ calls[other].completion_intent = 1
    /\ "extraction" \notin failures[other]
    /\ reply[other].status = 200
    /\ reply[other].parsed_query = [colors |-> <<Green>>]

\* One of the words stands somewhere in the text, letter case aside.
MentionsAny(text, words) ==
  \E w \in words : \E i \in 1..Len(text) : StandsAt(text, w, i)

ColourWords ==
  { <<"r","e","d">>   \* "red"
  , <<"o","r","a","n","g","e">>   \* "orange"
  , <<"y","e","l","l","o","w">>   \* "yellow"
  , <<"g","r","e","e","n">>   \* "green"
  , <<"b","l","u","e">>   \* "blue"
  }

ProblemPhrases ==
  { <<"l","o","w","e","s","t">>   \* "lowest"
  , <<"w","o","r","s","t">>   \* "worst"
  , <<"s","t","r","u","g","g","l","i","n","g">>   \* "struggling"
  , <<"r","e","d">>   \* "red"
  , <<"p","r","o","b","l","e","m">>   \* "problem"
  , <<"c","o","n","c","e","r","n","i","n","g">>   \* "concerning"
  }

SuccessPhrases ==
  { <<"b","e","s","t">>   \* "best"
  , <<"e","x","c","e","l","l","e","n","t">>   \* "excellent"
  }

\* C22: a text with a success phrase ("best", "excellent"), no colour word
\* and no problem phrase gets the colours Green and Blue.
C22_SuccessPhraseDefaultsToGreenAndBlue ==
  \A r \in Requests :
    ( /\ pc[r] = "parsed"
      /\ MentionsAny(user_query[r], SuccessPhrases)
      /\ ~MentionsAny(user_query[r], ColourWords)
      /\ ~MentionsAny(user_query[r], ProblemPhrases) )
      => parsed_query[r].colors = <<Green, Blue>>

\* The colour names of the colour words the text holds.
ColoursNamed(text) ==
  { Title(w) : w \in {c \in ColourWords : MentionsAny(text, {c})} }

\* C23: a text with at least one colour word gets exactly the colours it
\* names, each once, and no default colour, problem phrases or not; a text
\* with no colour word and a problem phrase gets Red and Orange.
C23_DefaultOnlyWithoutExplicitColour ==
  \A r \in Requests :
    pc[r] = "parsed" =>
      LET colors == parsed_query[r].colors
      IN  /\ MentionsAny(user_query[r], ColourWords)
               => /\ Range(colors) = ColoursNamed(user_query[r])
                  /\ Len(colors) = Cardinality(ColoursNamed(user_query[r]))
          /\ ( /\ ~MentionsAny(user_query[r], ColourWords)
               /\ MentionsAny(user_query[r], ProblemPhrases) )
               => colors = <<Red, Orange>>

\* A text that names green next to a problem phrase other than "red" gets
\* Green alone.
C23_Witness ==
  \E r \in Requests :
    /\ pc[r] = "parsed"
    /\ MentionsAny(user_query[r], {<<"g","r","e","e","n">>})
    /\ MentionsAny(user_query[r], ProblemPhrases)
    /\ parsed_query[r].colors = <<Green>>

\* The district lexicon in its declaration order; each keyword is its own
\* search term.
DistrictLexicon ==
  << <<"s","u","n","n","y","v","a","l","e">>   \* "sunnyvale"
   , <<"s","a","n"," ","f","r","a","n","c","i","s","c","o">>   \* "san francisco"
   , <<"l","o","s"," ","a","n","g","e","l","e","s">>   \* "los angeles"
   , <<"o","a","k","l","a","n","d">>   \* "oakland"
   , <<"s","a","n"," ","d","i","e","g","o">>   \* "san diego"
   , <<"a","l","a","m","e","d","a">>   \* "alameda"
   , <<"f","r","e","s","n","o">>   \* "fresno"
   , <<"s","a","c","r","a","m","e","n","t","o">>   \* "sacramento"
  >>

\* The entries of the district lexicon whose keyword the text holds.
DistrictsNamed(text) ==
  { k \in 1..Len(DistrictLexicon) : MentionsAny(text, {DistrictLexicon[k]}) }

\* The position of the first occurrence of the word in the text.
FirstAt(text, w) == CHOOSE i \in 1..Len(text) :
                      StandsAt(text, w, i) /\ \A j \in 1..(i - 1) : ~StandsAt(text, w, j)

\* C24: district_name is the search term of the first lexicon entry, in
\* declaration order, whose keyword the lower-cased text holds, whatever
\* other entries match and wherever they stand in the text; it is null when
\* no entry matches.
C24_FirstDistrictInLexiconOrderWins ==
  \A r \in Requests :
    pc[r] = "parsed" =>
      IF DistrictsNamed(user_query[r]) = {}
        THEN parsed_query[r].district_name = None
        ELSE \E k \in DistrictsNamed(user_query[r]) :
               /\ \A m \in DistrictsNamed(user_query[r]) : k <= m
               /\ parsed_query[r].district_name = DistrictLexicon[k]

\* A text that names Oakland before Sunnyvale gets sunnyvale, the earlier
\* lexicon entry.
C24_Witness ==
  \E r \in Requests :
    /\ pc[r] = "parsed"
    /\ DistrictsNamed(user_query[r]) = {1, 4}
    /\ FirstAt(user_query[r], DistrictLexicon[4]) < FirstAt(user_query[r], DistrictLexicon[1])
    /\ parsed_query[r].district_name = DistrictLexicon[1]

\* The words of each indicator of the registry.
IndicatorWords(indicator) ==
  IF indicator = "chronic_absenteeism" THEN Range(absenteeism_words)
  ELSE IF indicator = "ela_performance" THEN Range(ela_words)
  ELSE Range(math_words)

\* Where in the text the first word of the indicator stands.
IndicatorFirstAt(text, indicator) ==
  CHOOSE i \in 1..Len(text) :
    /\ \E w \in IndicatorWords(indicator) : StandsAt(text, w, i)
    /\ \A j \in 1..(i - 1) : \A w \in IndicatorWords(indicator) : ~StandsAt(text, w, j)

\* Where in the text the first phrase of the student group stands.
GroupFirstAt(text, code) ==
  CHOOSE i \in 1..Len(text) :
    /\ \E e \in Range(student_group_patterns) : e[2] = code /\ StandsAt(text, e[1], i)
    /\ \A j \in 1..(i - 1) : \A e \in Range(student_group_patterns) :
         e[2] = code => ~StandsAt(text, e[1], j)

\* C25: student_groups and indicators hold the code of every lexicon entry
\* the text matches, in the order in which the matches first occur in the
\* text.
C25_MatchesInOrderOfFirstOccurrence ==
  \A r \in Requests :
    pc[r] = "parsed" =>
      LET text       == user_query[r]
          indicators == parsed_query[r].indicators
          groups     == parsed_query[r].student_groups
      IN  /\ Range(indicators) =
               { i \in Range(RegistryIndicators) : MentionsAny(text, IndicatorWords(i)) }
          /\ \A a, b \in DOMAIN indicators :
               a < b => IndicatorFirstAt(text, indicators[a])
                          <= IndicatorFirstAt(text, indicators[b])
          /\ Range(groups) =
               { e[2] : e \in { f \in Range(student_group_patterns) :
                                  MentionsAny(text, {f[1]}) } }
          /\ \A a, b \in DOMAIN groups :
               a < b => GroupFirstAt(text, groups[a]) <= GroupFirstAt(text, groups[b])

\* The phrase of the long-term English learners.
LongTermPhrase ==
  <<"l","o","n","g","-","t","e","r","m"," ","e","n","g","l","i","s","h"," ","l","e","a","r","n","e","r","s">>

\* A record of the district asked for that holds nothing but one observation
\* of the EL group.
ELOnlyRecord(parsed, indicator, status) ==
  SchoolDocument(IF parsed.district_name = None THEN Oakland_Unified
                                                ELSE parsed.district_name,
                 Lincoln_High,
                 "EL" :> (indicator :> IndicatorData(indicator, status, 0)))

\* C30: a text that mentions 'long-term english learners' yields
\* student_groups with EL as well as LTEL, and with colours present the
\* compiled filter accepts a record that matches on the EL group only; no
\* text yields student_groups = [LTEL].
C30_LongTermLearnersBringEL ==
  \A r \in Requests :
    pc[r] = "parsed" =>
      LET parsed == parsed_query[r]
          groups == parsed.student_groups
          inds   == IF parsed.indicators = <<>> THEN RegistryIndicators
                                                ELSE parsed.indicators
      IN  /\ groups # <<"LTEL">>
          /\ MentionsAny(user_query[r], {LongTermPhrase}) =>
               /\ "EL" \in Range(groups)
               /\ "LTEL" \in Range(groups)
               /\ \A i \in Range(inds) : \A c \in Range(parsed.colors) :
                    Matches(ELOnlyRecord(parsed, i, c), build_mongodb_query(parsed))

\* A text with the long-term phrase and a colour was parsed: the groups hold
\* EL and LTEL, and a red EL-only record passes the compiled filter.
C30_Witness ==
  \E r \in Requests :
    /\ pc[r] = "parsed"
    /\ MentionsAny(user_query[r], {LongTermPhrase})
    /\ parsed_query[r].colors = <<Red>>
    /\ "LTEL" \in Range(parsed_query[r].student_groups)
    /\ Matches(ELOnlyRecord(parsed_query[r], "math_performance", Red),
               build_mongodb_query(parsed_query[r]))

(***************************************************************************)
(* Properties of the import                                                *)
(***************************************************************************)

\* C27: every document the import creates has dashboard_indicators equal to
\* the ALL entry of its student_groups when there is one, and empty
\* otherwise, whatever rows came in whatever order.
C27_OverallIsTheAllEntry ==
  import_pc.phase = "done" =>
    /\ Len(documents) = Len(schools)
    /\ \A k \in DOMAIN documents :
         /\ documents[k].student_groups = schools[k].student_groups
         /\ documents[k].dashboard_indicators =
              IF "ALL" \in DOMAIN documents[k].student_groups
                THEN documents[k].student_groups["ALL"]
                ELSE <<>>

\* A school whose first row was filed under EL and whose later row under
\* ALL: the document's overall indicators are the ALL entry.
C27_Witness ==
  /\ import_pc.phase = "done"
  /\ \E k \in DOMAIN documents :
       /\ DOMAIN documents[k].student_groups = {"EL", "ALL"}
       /\ "math_performance" \in DOMAIN documents[k].student_groups["ALL"]
       /\ "chronic_absenteeism" \in DOMAIN documents[k].student_groups["EL"]
       /\ documents[k].dashboard_indicators = documents[k].student_groups["ALL"]

\* C28: every status the import writes is one of Red, Orange, Yellow, Green,
\* Blue and No Data, whatever the colour code of the row (empty, missing and
\* unrecognised codes included).
C28_StatusIsALevelOrNoData ==
  \A k \in DOMAIN schools :
    \A g \in DOMAIN schools[k].student_groups :
      \A i \in DOMAIN schools[k].student_groups[g] :
        schools[k].student_groups[g][i].status \in FiveLevels \cup {NoData}

====
